---- MODULE Spec2Model ----
(***************************************************************************)
(* Calorie Calculator: the record store (DataManager, src/constants.h) and *)
(* the keyboard-driven UI state machine (UIManager, src/main.cpp).         *)
(*                                                                         *)
(* A std::string is a sequence of one-character strings, so that the       *)
(* formatting done by saveData and the parsing done by loadData, std::stoi *)
(* and sscanf are computed character by character.                         *)
(*                                                                         *)
(* A state of the model is a point where the program blocks on input       *)
(* (_getch, std::getline, std::cin >>) or has ended; one action is one     *)
(* key press with everything the program does until it blocks again.       *)
(***************************************************************************)
EXTENDS Integers, Sequences, FiniteSets, TLC

(***************************************************************************)
(* Program constants                                                       *)
(***************************************************************************)
CONSOLE_HEIGHT == 24

maxNameLen == 21

INT_MAX == 2147483647

(***************************************************************************)
(* Characters and strings                                                  *)
(***************************************************************************)
Digits == <<"0", "1", "2", "3", "4", "5", "6", "7", "8", "9">>

IsDigit(c) == \E i \in 1..10 : Digits[i] = c

DigitVal(c) == (CHOOSE i \in 1..10 : Digits[i] = c) - 1

IsSpace(c) == c \in {" ", "\t"}

\* s.substr(pos): the characters of s after the first pos ones
Substr(s, pos) == SubSeq(s, pos + 1, Len(s))

\* s.substr(0, n): at most the first n characters of s
Prefix(s, n) == SubSeq(s, 1, IF Len(s) < n THEN Len(s) ELSE n)

\* s.find(p) == 0
StartsWith(s, p) == Len(s) >= Len(p) /\ SubSeq(s, 1, Len(p)) = p

\* faulty variant of Contains: p is found at the start of s only
Contains_AtStart(s, p) == Len(p) <= Len(s) /\ SubSeq(s, 1, Len(p)) = p

\* s.find(p) != std::string::npos
Contains(s, p) ==
    \E i \in 0..(Len(s) - Len(p)) : SubSeq(s, i + 1, i + Len(p)) = p

\* index of the first character of s from position i on that is c, or Len(s)+1
RECURSIVE FindFrom(_, _, _)
FindFrom(s, c, i) ==
    IF i > Len(s) THEN Len(s) + 1
    ELSE IF s[i] = c THEN i
    ELSE FindFrom(s, c, i + 1)

\* s with its leading blanks and tabs removed
RECURSIVE SkipWs(_)
SkipWs(s) ==
    IF s # <<>> /\ IsSpace(Head(s)) THEN SkipWs(Tail(s)) ELSE s

\* number of leading decimal digits of s
RECURSIVE DigitRun(_)
DigitRun(s) ==
    IF s # <<>> /\ IsDigit(Head(s)) THEN 1 + DigitRun(Tail(s)) ELSE 0

\* value of a sequence of decimal digits
RECURSIVE DigitsValue(_)
DigitsValue(s) ==
    IF s = <<>> THEN 0
    ELSE 10 * DigitsValue(SubSeq(s, 1, Len(s) - 1)) + DigitVal(s[Len(s)])

RECURSIVE NatToString(_)
NatToString(n) ==
    IF n < 10 THEN <<Digits[n + 1]>>
    ELSE NatToString(n \div 10) \o <<Digits[(n % 10) + 1]>>

\* operator<<(int) and std::to_string(int)
IntToString(n) ==
    IF n < 0 THEN <<"-">> \o NatToString(-n) ELSE NatToString(n)

\* "%02d" and "%04d" of sprintf_s for a non-negative number
RECURSIVE ZeroPad(_, _)
ZeroPad(s, w) == IF Len(s) >= w THEN s ELSE ZeroPad(<<"0">> \o s, w)

\* The signed decimal number at the start of s: blanks, an optional sign,
\* digits.  ok is FALSE when there is no digit or the value does not fit an
\* int; rest is what follows the number.
ScanResult(u, n, val) ==
    [ok |-> n > 0 /\ val <= INT_MAX /\ val >= -INT_MAX - 1,
     digits |-> n,
     value |-> val,
     rest |-> Substr(u, n)]

\* the digits of u, n of them, negated after a minus sign
ScanDigits(u, n, minus) ==
    ScanResult(u, n, IF minus THEN -DigitsValue(SubSeq(u, 1, n))
                     ELSE DigitsValue(SubSeq(u, 1, n)))

\* t starts at the first character that is no blank
ScanSigned(t) ==
    IF t # <<>> /\ Head(t) \in {"-", "+"}
    THEN ScanDigits(Tail(t), DigitRun(Tail(t)), Head(t) = "-")
    ELSE ScanDigits(t, DigitRun(t), FALSE)

ScanInt(s) == ScanSigned(SkipWs(s))

\* std::stoi(s): ok = FALSE stands for the exception it throws
\* (std::invalid_argument, std::out_of_range)
StoiOf(r) == [ok |-> r.ok, value |-> r.value]

Stoi(s) == StoiOf(ScanInt(s))

(***************************************************************************)
(* Record store: DataManager                                               *)
(***************************************************************************)
\* the literals of the persisted format
kDailyGoals == <<"D", "A", "I", "L", "Y", "_", "G", "O", "A", "L", "S", ":">>

kDailyGoalsOut == <<"D", "A", "I", "L", "Y", "_", "G", "O", "A", "L", "S", ":", " ">>

kDate == <<"D", "A", "T", "E", ":">>

kDateOut == <<"D", "A", "T", "E", ":", " ">>

kFood == <<"F", "O", "O", "D", ":">>

kFoodOut == <<"F", "O", "O", "D", ":", " ">>

kEmptyName == <<"<", "e", "m", "p", "t", "y", ">">>

\* Food(n, cal, c, p, f, g)
Food(n, cal, c, p, f, g) ==
    [name |-> n, calories |-> cal, carbs |-> c, protein |-> p, fat |-> f,
     grams |-> g]

\* DataManager::DataManager(): the default goals
DefaultGoals == [calories |-> 2000, carbs |-> 250, protein |-> 150, fat |-> 70]

\* DailyRecord(d)
DailyRecord(d) == [date |-> d, foods |-> <<>>]

\* position in recs of the first record of the date, 0 when there is none
RecordIndex(recs, date) ==
    IF \E i \in 1..Len(recs) : recs[i].date = date
    THEN CHOOSE i \in 1..Len(recs) :
            /\ recs[i].date = date
            /\ \A j \in 1..(i - 1) : recs[j].date # date
    ELSE 0

\* faulty variant of GetRecord: a record is appended on every call
GetRecord_Append(recs, date) == Append(recs, DailyRecord(date))

\* DataManager::getRecord: the records vector after the call
GetRecord(recs, date) ==
    IF RecordIndex(recs, date) # 0 THEN recs
    ELSE Append(recs, DailyRecord(date))

\* position of the record DataManager::getRecord returns
GetRecordPos(recs, date) == RecordIndex(GetRecord(recs, date), date)

FoodLine(f) ==
    kFoodOut \o f.name \o <<"|">> \o IntToString(f.calories) \o <<"|">>
        \o IntToString(f.carbs) \o <<"|">> \o IntToString(f.protein) \o <<"|">>
        \o IntToString(f.fat) \o <<"|">> \o IntToString(f.grams)

GoalsLine(g) ==
    kDailyGoalsOut \o IntToString(g.calories) \o <<",">> \o IntToString(g.carbs)
        \o <<",">> \o IntToString(g.protein) \o <<",">> \o IntToString(g.fat)

RECURSIVE FoodLines(_)
FoodLines(foods) ==
    IF foods = <<>> THEN <<>>
    ELSE <<FoodLine(Head(foods))>> \o FoodLines(Tail(foods))

RECURSIVE RecordLines(_)
RecordLines(recs) ==
    IF recs = <<>> THEN <<>>
    ELSE <<kDateOut \o Head(recs).date>> \o FoodLines(Head(recs).foods)
            \o RecordLines(Tail(recs))

\* DataManager::saveData: the lines written to the data file
SaveLines(goals, recs) == <<GoalsLine(goals)>> \o RecordLines(recs)

\* std::replace(goalsStr.begin(), goalsStr.end(), ',', ' ')
ReplaceCommas(s) == [i \in 1..Len(s) |-> IF s[i] = "," THEN " " ELSE s[i]]

\* One "iss >> field" on the stream st = [s, fail]: old is the field's value
\* before.  A stream that has failed, or that ends before a character of the
\* number, leaves the field alone; a character that starts no number stores 0
\* and fails the stream; a number that does not fit stores the nearest int
\* and fails the stream.
ExtractFrom(st, old, t, r) ==
    IF st.fail \/ t = <<>> THEN [s |-> <<>>, fail |-> TRUE, value |-> old]
    ELSE IF r.digits = 0 THEN [s |-> t, fail |-> TRUE, value |-> 0]
    ELSE IF ~r.ok
         THEN [s |-> r.rest, fail |-> TRUE,
               value |-> IF r.value > 0 THEN INT_MAX ELSE -INT_MAX - 1]
    ELSE [s |-> r.rest, fail |-> FALSE, value |-> r.value]

Extract(st, old) == ExtractFrom(st, old, SkipWs(st.s), ScanInt(st.s))

\* loadData, the DAILY_GOALS: branch
ParseGoals4(e1, e2, e3, e4) ==
    [calories |-> e1.value, carbs |-> e2.value, protein |-> e3.value,
     fat |-> e4.value]

ParseGoals3(goals, e1, e2, e3) ==
    ParseGoals4(e1, e2, e3, Extract(e3, goals.fat))

ParseGoals2(goals, e1, e2) ==
    ParseGoals3(goals, e1, e2, Extract(e2, goals.protein))

ParseGoals1(goals, e1) == ParseGoals2(goals, e1, Extract(e1, goals.carbs))

ParseGoals(line, goals) ==
    ParseGoals1(goals,
                Extract([s |-> ReplaceCommas(Substr(line, 12)), fail |-> FALSE],
                        goals.calories))

\* the tokens successive std::getline(iss, token, '|') calls deliver
RECURSIVE GetTokens(_)
GetTokens(s) ==
    IF s = <<>> THEN <<>>
    ELSE LET i == FindFrom(s, "|", 1)
         IN  <<SubSeq(s, 1, i - 1)>>
                \o (IF i > Len(s) THEN <<>> ELSE GetTokens(Substr(s, i)))

\* loadData, the FOOD: branch: the food parsed from the line; thrown when a
\* std::stoi of one of its numeric tokens throws
ParseFood(line) ==
    LET tk == GetTokens(Substr(line, 5))
        num(i) == IF Len(tk) >= i THEN Stoi(tk[i]) ELSE [ok |-> TRUE, value |-> 0]
    IN  [thrown |-> \E i \in 2..6 : ~num(i).ok,
         food |-> Food(IF Len(tk) >= 1 THEN tk[1] ELSE <<>>,
                       num(2).value, num(3).value, num(4).value, num(5).value,
                       num(6).value)]

\* faulty variant of LoadLine: a FOOD line met before any DATE line opens a
\* record with no date
LoadLine_OrphanRecord(st, line) ==
    IF StartsWith(line, kDailyGoals)
    THEN [st EXCEPT !.goals = ParseGoals(line, st.goals)]
    ELSE IF StartsWith(line, kDate)
    THEN LET dateStr == SkipWs(Substr(line, 5))
         IN  [st EXCEPT !.records = GetRecord(st.records, dateStr),
                        !.cur = GetRecordPos(st.records, dateStr)]
    ELSE IF StartsWith(line, kFood) /\ st.cur = 0
    THEN [st EXCEPT !.records = Append(@, DailyRecord(<<>>)),
                    !.cur = Len(st.records) + 1]
    ELSE IF StartsWith(line, kFood)
    THEN LET pf == ParseFood(line)
         IN  IF pf.thrown THEN [st EXCEPT !.thrown = TRUE]
             ELSE [st EXCEPT !.records[st.cur].foods = Append(@, pf.food)]
    ELSE st

\* loadData, one line: st = [goals, records, cur, thrown], cur the position of
\* currentRecord in records (0: nullptr)
LoadLine(st, line) ==
    IF StartsWith(line, kDailyGoals)
    THEN [st EXCEPT !.goals = ParseGoals(line, st.goals)]
    ELSE IF StartsWith(line, kDate)
    THEN LET dateStr == SkipWs(Substr(line, 5))
         IN  [st EXCEPT !.records = GetRecord(st.records, dateStr),
                        !.cur = GetRecordPos(st.records, dateStr)]
    ELSE IF StartsWith(line, kFood) /\ st.cur # 0
    THEN LET pf == ParseFood(line)
         IN  IF pf.thrown THEN [st EXCEPT !.thrown = TRUE]
             ELSE [st EXCEPT !.records[st.cur].foods = Append(@, pf.food)]
    ELSE st

RECURSIVE LoadLines(_, _)
LoadLines(st, lines) ==
    IF lines = <<>> \/ st.thrown THEN st
    ELSE LoadLines(LoadLine(st, Head(lines)), Tail(lines))

\* DataManager::loadData on an open file holding lines, into a store that
\* holds goals and recs
LoadData(goals, recs, lines) ==
    LoadLines([goals |-> goals, records |-> recs, cur |-> 0, thrown |-> FALSE],
              lines)

(***************************************************************************)
(* Dates: sprintf_s "%02d/%02d/%04d", sscanf_s "%d/%d/%d" and mktime       *)
(***************************************************************************)
IsLeap(y) == (y % 4 = 0 /\ y % 100 # 0) \/ y % 400 = 0

MonthLength(m, y) ==
    IF m = 2 THEN (IF IsLeap(y) THEN 29 ELSE 28)
    ELSE IF m \in {4, 6, 9, 11} THEN 30 ELSE 31

\* sprintf_s(buffer, "%02d/%02d/%04d", d, m, y)
FormatDate(d, m, y) ==
    ZeroPad(IntToString(d), 2) \o <<"/">> \o ZeroPad(IntToString(m), 2)
        \o <<"/">> \o ZeroPad(IntToString(y), 4)

\* sscanf_s(currentDate.c_str(), "%d/%d/%d", &day, &month, &year)
AfterSlash(r) == IF r.rest # <<>> THEN Tail(r.rest) ELSE <<>>

ParseDate3(a, b, c) ==
    [ok |-> /\ a.ok /\ b.ok /\ c.ok
            /\ a.rest # <<>> /\ Head(a.rest) = "/"
            /\ b.rest # <<>> /\ Head(b.rest) = "/",
     day |-> a.value, month |-> b.value, year |-> c.value]

ParseDate2(a, b) == ParseDate3(a, b, ScanInt(AfterSlash(b)))

ParseDate1(a) == ParseDate2(a, ScanInt(AfterSlash(a)))

ParseDate(s) == ParseDate1(ScanInt(s))

\* mktime's normalisation of (tm_mday, tm_mon, tm_year)
RECURSIVE MkTime(_, _, _)
MkTime(d, m, y) ==
    IF m < 1 THEN MkTime(d, m + 12, y - 1)
    ELSE IF m > 12 THEN MkTime(d, m - 12, y + 1)
    ELSE IF d < 1
    THEN (IF m = 1 THEN MkTime(d + MonthLength(12, y - 1), 12, y - 1)
          ELSE MkTime(d + MonthLength(m - 1, y), m - 1, y))
    ELSE IF d > MonthLength(m, y) THEN MkTime(d - MonthLength(m, y), m + 1, y)
    ELSE [day |-> d, month |-> m, year |-> y]

\* days from 31/12/0000 to the date
RECURSIVE DaysBeforeMonth(_, _)
DaysBeforeMonth(m, y) ==
    IF m = 1 THEN 0 ELSE DaysBeforeMonth(m - 1, y) + MonthLength(m - 1, y)

DayNumber(d, m, y) ==
    365 * (y - 1) + ((y - 1) \div 4) - ((y - 1) \div 100) + ((y - 1) \div 400)
        + DaysBeforeMonth(m, y) + d

\* tm_wday after mktime: 0 = Sunday .. 6 = Saturday
WeekDay(d, m, y) == DayNumber(d, m, y) % 7

\* UIManager::changeDateByOffset: the new currentDate
FormatTm(t) == FormatDate(t.day, t.month, t.year)

\* faulty variant of ShiftTm: the fields are printed as they were set, with
\* no mktime between
ShiftTm_Raw(c, offset) == FormatDate(c.day + offset, c.month, c.year)

ShiftTm(c, offset) == FormatTm(MkTime(c.day + offset, c.month, c.year))

ChangeDateByOffset(date, offset) == ShiftTm(ParseDate(date), offset)

\* faulty variant of DayBefore: the day is not taken off
DayBefore_Same(t) == t

\* renderCalendar, processCalendarInput: daysInMonth, the day of month of the
\* day before the first of the following month (86400 seconds before its
\* midnight, in a time zone whose clock is not changed at that midnight)
DayBefore(t) == MkTime(t.day - 1, t.month, t.year)

DaysInMonth(m, y) == DayBefore(MkTime(1, m + 1, y)).day

\* renderCalendar, processCalendarInput: startWeekday
WeekDayOf(t) == WeekDay(t.day, t.month, t.year)

StartWeekday(m, y) == WeekDayOf(MkTime(1, m, y))

(***************************************************************************)
(* State                                                                   *)
(***************************************************************************)
VARIABLES
    pc,                   \* where control is: "main" (before loadData), the
                          \* handler whose input loop is blocked, "run" (the
                          \* loop of UIManager::run), "terminated", "exit"
    file,                 \* calorie_data.txt: [exists, lines]
    writable,             \* whether std::ofstream can open the data file
    cin,                  \* std::cin: [fail, pending]; pending holds the rest
                          \* of a typed line that std::cin >> left unread
    dailyGoals,           \* DataManager::dailyGoals
    records,              \* DataManager::records
    firstRun,             \* DataManager::firstRun
    g_foodTemplates,      \* the global template list
    currentState,         \* UIManager::currentState
    currentDate,          \* UIManager::currentDate
    calendarOriginalDate, \* UIManager::calendarOriginalDate
    selectedCalendarDay,  \* UIManager::selectedCalendarDay
    selectedIndex,        \* UIManager::selectedIndex
    foodScrollOffset,     \* UIManager::foodScrollOffset
    localSelection,       \* localSelection of the handler that is running
    foodName,             \* the text field of the running food form
    fieldValues,          \* the numeric fields of the running form
    foodIndex,            \* handleEditFood's foodIndex
    searchTerm,           \* handleAddFromTemplate: searchTerm
    searchEditing,        \* handleAddFromTemplate: searchEditing
    templateScrollOffset, \* handleAddFromTemplate: templateScrollOffset
    editSelection,        \* the create-template form: editSelection
    tplName,              \* the create-template form: tplName
    lim,                  \* the exploration limits of the run (never changes)
    capturesLeft,         \* typed lines the exploration still allows
    lastOp                \* history: the input event handled last

vars ==
    <<pc, file, writable, cin, dailyGoals, records, firstRun, g_foodTemplates,
      currentState, currentDate, calendarOriginalDate, selectedCalendarDay,
      selectedIndex, foodScrollOffset, localSelection, foodName, fieldValues,
      foodIndex, searchTerm, searchEditing, templateScrollOffset,
      editSelection, tplName, lim, capturesLeft, lastOp>>

envVars == <<writable, lim>>

calVars == <<calendarOriginalDate, selectedCalendarDay>>

formVars == <<localSelection, foodName, fieldValues, foodIndex>>

pickVars == <<searchTerm, searchEditing, templateScrollOffset>>

createVars == <<editSelection, tplName>>

\* menuItems.size()
menuCount == 4

\* processInput: visibleSlots; renderMainMenu: visibleFoodSlots
VisibleSlots ==
    LET borderY == 6 + menuCount
        v == CONSOLE_HEIGHT - 4 - borderY
    IN  IF v < 0 THEN 0 ELSE v

\* the foods of the record of the date (the record exists)
FoodsOf(recs, date) == recs[RecordIndex(recs, date)].foods

\* faulty variant of ClampFoodScroll: the frame leaves the offset alone
ClampFoodScroll_None(scroll, foodCount) == scroll

\* renderMainMenu: the clamp of foodScrollOffset
ClampFoodScroll(scroll, foodCount) ==
    IF scroll > foodCount - VisibleSlots
    THEN (IF foodCount - VisibleSlots >= 0 THEN foodCount - VisibleSlots ELSE 0)
    ELSE scroll

\* faulty variant of RenderMainMenu: a date that has no record takes the
\* place of the last record of the store
RenderMainMenu_Replace(recs, date, scroll) ==
    LET r == IF RecordIndex(recs, date) # 0 \/ recs = <<>>
             THEN GetRecord(recs, date)
             ELSE [recs EXCEPT ![Len(recs)] = DailyRecord(date)]
    IN  /\ pc' = "run"
        /\ currentState' = "STATE_MAIN_MENU"
        /\ records' = r
        /\ foodScrollOffset' = ClampFoodScroll(scroll, Len(FoodsOf(r, date)))

\* UIManager::run reaches _getch in STATE_MAIN_MENU: renderMainMenu has
\* run on the store recs, the date and the scroll offset given
RenderMainMenu(recs, date, scroll) ==
    LET r == GetRecord(recs, date)
    IN  /\ pc' = "run"
        /\ currentState' = "STATE_MAIN_MENU"
        /\ records' = r
        /\ foodScrollOffset' = ClampFoodScroll(scroll, Len(FoodsOf(r, date)))

\* faulty variant of SaveData: nothing is written
SaveData_Skip(goals, recs) == file' = file

\* DataManager::saveData on the store given
SaveData(goals, recs) ==
    file' = IF writable THEN [exists |-> TRUE, lines |-> SaveLines(goals, recs)]
            ELSE file

\* no handler's locals are live
NoForm ==
    /\ localSelection' = 0
    /\ foodName' = <<>>
    /\ fieldValues' = <<>>
    /\ foodIndex' = 0

NoPicker ==
    /\ searchTerm' = <<>>
    /\ searchEditing' = FALSE
    /\ templateScrollOffset' = 0

NoCreate ==
    /\ editSelection' = 0
    /\ tplName' = <<>>

\* selectedCalendarDay and calendarOriginalDate are members, but processInput
\* (lines 573, 575) overwrites both each time the calendar opens and nothing
\* reads them while the main menu shows: outside the calendar the model
\* holds them at the values the constructor gave them (lines 92, 93)
NoCalendar ==
    /\ selectedCalendarDay' = 1
    /\ calendarOriginalDate' = <<>>

\* the active date may become d: inside the explored window, and the store
\* has room for its record
DayNumberOf(t) == DayNumber(t.day, t.month, t.year)

DateAllowed(d) ==
    /\ \E n \in {DayNumberOf(ParseDate(d))} :
           n >= lim.dateLo /\ n <= lim.dateHi
    /\ (RecordIndex(records, d) # 0 \/ Len(records) < lim.maxRecords)

(***************************************************************************)
(* main(): loadData, then the first-run goals form or the main loop        *)
(***************************************************************************)
InitWith(profile) ==
    /\ lim = profile
    /\ pc = "main"
    /\ file \in profile.files
    /\ writable \in profile.writables
    /\ cin = [fail |-> FALSE, pending |-> <<>>]
    /\ dailyGoals = DefaultGoals
    /\ records = <<>>
    /\ firstRun = FALSE
    /\ g_foodTemplates = <<>>
    /\ currentState = "STATE_MAIN_MENU"
    /\ currentDate \in profile.todays
    /\ calendarOriginalDate = <<>>
    /\ selectedCalendarDay = 1
    /\ selectedIndex = 0
    /\ foodScrollOffset = 0
    /\ localSelection = 0
    /\ foodName = <<>>
    /\ fieldValues = <<>>
    /\ foodIndex = 0
    /\ searchTerm = <<>>
    /\ searchEditing = FALSE
    /\ templateScrollOffset = 0
    /\ editSelection = 0
    /\ tplName = <<>>
    /\ capturesLeft = profile.captures
    /\ lastOp = "init"

\* faulty variant of Main_FirstRun: the goals form is skipped and the main
\* menu shows at once
Main_FirstRun_NoForm ==
    /\ pc = "main"
    /\ ~file.exists
    /\ firstRun' = TRUE
    /\ RenderMainMenu(records, currentDate, foodScrollOffset)
    /\ lastOp' = "load"
    /\ UNCHANGED <<file, cin, dailyGoals, g_foodTemplates, currentDate,
                   selectedIndex, capturesLeft>>
    /\ UNCHANGED <<envVars, calVars, formVars, pickVars, createVars>>

\* main: loadData finds no file; isFirstRun, so handleStartGoals opens
Main_FirstRun ==
    /\ pc = "main"
    /\ ~file.exists
    /\ firstRun' = TRUE
    /\ pc' = "handleStartGoals"
    /\ localSelection' = 0
    /\ fieldValues' = <<0, 0, 0, 0>>
    /\ lastOp' = "load"
    /\ UNCHANGED <<file, cin, dailyGoals, records, g_foodTemplates,
                   currentState, currentDate, selectedIndex, foodScrollOffset,
                   foodName, foodIndex, capturesLeft>>
    /\ UNCHANGED <<envVars, calVars, pickVars, createVars>>

\* main: loadData reads the file; ui.run() renders the main menu
Main_Load ==
    /\ pc = "main"
    /\ file.exists
    /\ \E st \in {LoadData(dailyGoals, records, file.lines)} :
           /\ ~st.thrown
           /\ dailyGoals' = st.goals
           /\ RenderMainMenu(st.records, currentDate, foodScrollOffset)
    /\ lastOp' = "load"
    /\ UNCHANGED <<file, cin, firstRun, g_foodTemplates, currentDate,
                   selectedIndex, capturesLeft>>
    /\ UNCHANGED <<envVars, calVars, formVars, pickVars, createVars>>

\* main: a std::stoi in loadData throws; nothing catches it and the process
\* is terminated
Main_LoadThrows ==
    /\ pc = "main"
    /\ file.exists
    /\ LoadData(dailyGoals, records, file.lines).thrown
    /\ pc' = "terminated"
    /\ lastOp' = "load"
    /\ UNCHANGED <<file, cin, dailyGoals, records, firstRun, g_foodTemplates,
                   currentState, currentDate, selectedIndex, foodScrollOffset,
                   capturesLeft>>
    /\ UNCHANGED <<envVars, calVars, formVars, pickVars, createVars>>

(***************************************************************************)
(* UIManager::processInput: the main menu                                  *)
(***************************************************************************)
InMainMenu == pc = "run" /\ currentState = "STATE_MAIN_MENU"

foodCount == Len(FoodsOf(records, currentDate))

totalSelectable == menuCount + foodCount

\* key 'j': the next index, the first one after the last
Advance(sel, total) == IF sel < total - 1 THEN sel + 1 ELSE 0

\* faulty variant of Retreat: no wrap at the first index
Retreat_NoWrap(sel, total) == sel - 1

\* key 'k': the index before, the last one before the first
Retreat(sel, total) == IF sel > 0 THEN sel - 1 ELSE total - 1

\* faulty variant of ProcessInput_j: the list does not scroll after the focus
ProcessInput_j_NoScroll ==
    /\ InMainMenu
    /\ LET sel == Advance(selectedIndex, totalSelectable)
           scroll == IF sel >= menuCount THEN foodScrollOffset ELSE 0
       IN  /\ selectedIndex' = sel
           /\ RenderMainMenu(records, currentDate, scroll)
    /\ lastOp' = "main_j"
    /\ UNCHANGED <<file, cin, dailyGoals, firstRun, g_foodTemplates,
                   currentDate, capturesLeft>>
    /\ UNCHANGED <<envVars, calVars, formVars, pickVars, createVars>>

\* key 'j'
ProcessInput_j ==
    /\ InMainMenu
    /\ LET sel == Advance(selectedIndex, totalSelectable)
           fi == sel - menuCount
           scroll == IF sel >= menuCount
                     THEN (IF fi >= VisibleSlots + foodScrollOffset
                           THEN fi - VisibleSlots + 1 ELSE foodScrollOffset)
                     ELSE 0
       IN  /\ selectedIndex' = sel
           /\ RenderMainMenu(records, currentDate, scroll)
    /\ lastOp' = "main_j"
    /\ UNCHANGED <<file, cin, dailyGoals, firstRun, g_foodTemplates,
                   currentDate, capturesLeft>>
    /\ UNCHANGED <<envVars, calVars, formVars, pickVars, createVars>>

\* key 'k'
ProcessInput_k ==
    /\ InMainMenu
    /\ LET sel == Retreat(selectedIndex, totalSelectable)
           fi == sel - menuCount
           s1 == IF fi < foodScrollOffset THEN fi ELSE foodScrollOffset
           s2 == IF sel = totalSelectable - 1
                 THEN (IF foodCount > VisibleSlots
                       THEN foodCount - VisibleSlots ELSE 0)
                 ELSE s1
           scroll == IF sel >= menuCount THEN s2 ELSE 0
       IN  /\ selectedIndex' = sel
           /\ RenderMainMenu(records, currentDate, scroll)
    /\ lastOp' = "main_k"
    /\ UNCHANGED <<file, cin, dailyGoals, firstRun, g_foodTemplates,
                   currentDate, capturesLeft>>
    /\ UNCHANGED <<envVars, calVars, formVars, pickVars, createVars>>

\* faulty variant of Erase: the last entry goes, whichever is focused
Erase_Last(foods, i) == SubSeq(foods, 1, Len(foods) - 1)

\* the foods after foods.erase(foods.begin() + i), i counted from 0
Erase(foods, i) == SubSeq(foods, 1, i) \o SubSeq(foods, i + 2, Len(foods))

\* faulty variant of FocusAfterErase: the focus stays where it was
FocusAfterErase_Stay(sel, n) == sel

\* key 'x': the focused index once n foods are left
FocusAfterErase(sel, n) == IF sel >= menuCount + n THEN menuCount + n - 1 ELSE sel

\* key 'x' with a food entry focused: erase it, pull the focus back inside
\* the list, saveData
ProcessInput_x ==
    /\ InMainMenu
    /\ selectedIndex >= menuCount
    /\ LET fi == selectedIndex - menuCount
           pos == RecordIndex(records, currentDate)
           recs == [records EXCEPT ![pos].foods = Erase(@, fi)]
           n == Len(recs[pos].foods)
       IN  /\ fi >= 0 /\ fi < foodCount
           /\ selectedIndex' = FocusAfterErase(selectedIndex, n)
           /\ SaveData(dailyGoals, recs)
           /\ RenderMainMenu(recs, currentDate, foodScrollOffset)
    /\ lastOp' = "delete"
    /\ UNCHANGED <<cin, dailyGoals, firstRun, g_foodTemplates, currentDate,
                   capturesLeft>>
    /\ UNCHANGED <<envVars, calVars, formVars, pickVars, createVars>>

\* key 'x' with a menu button focused: nothing is deleted
ProcessInput_x_menu ==
    /\ InMainMenu
    /\ ~(selectedIndex >= menuCount
         /\ selectedIndex - menuCount >= 0
         /\ selectedIndex - menuCount < foodCount)
    /\ RenderMainMenu(records, currentDate, foodScrollOffset)
    /\ lastOp' = "delete_none"
    /\ UNCHANGED <<file, cin, dailyGoals, firstRun, g_foodTemplates,
                   currentDate, selectedIndex, capturesLeft>>
    /\ UNCHANGED <<envVars, calVars, formVars, pickVars, createVars>>

\* keys 'h' (offset -1) and 'l' (offset 1)
ProcessInput_hl(offset) ==
    /\ InMainMenu
    /\ \E d \in {ChangeDateByOffset(currentDate, offset)} :
           /\ DateAllowed(d)
           /\ currentDate' = d
           /\ selectedIndex' = 0
           /\ RenderMainMenu(records, d, 0)
    /\ lastOp' = IF offset < 0 THEN "main_h" ELSE "main_l"
    /\ UNCHANGED <<file, cin, dailyGoals, firstRun, g_foodTemplates,
                   capturesLeft>>
    /\ UNCHANGED <<envVars, calVars, formVars, pickVars, createVars>>

ProcessInput_h == ProcessInput_hl(-1)

ProcessInput_l == ProcessInput_hl(1)

\* key 'q': exit(0)
ProcessInput_q ==
    /\ InMainMenu
    /\ pc' = "exit"
    /\ lastOp' = "quit"
    /\ UNCHANGED <<file, cin, dailyGoals, records, firstRun, g_foodTemplates,
                   currentState, currentDate, selectedIndex, foodScrollOffset,
                   capturesLeft>>
    /\ UNCHANGED <<envVars, calVars, formVars, pickVars, createVars>>

\* key Enter on [Add from templates]: handleAddFromTemplate opens
ProcessInput_Enter_templates ==
    /\ InMainMenu
    /\ selectedIndex = 0
    /\ "templates" \in lim.screens
    /\ pc' = "handleAddFromTemplate"
    /\ NoForm /\ NoPicker
    /\ lastOp' = "open_templates"
    /\ UNCHANGED <<file, cin, dailyGoals, records, firstRun, g_foodTemplates,
                   currentState, currentDate, selectedIndex, foodScrollOffset,
                   capturesLeft>>
    /\ UNCHANGED <<envVars, calVars, createVars>>

\* key Enter on [Add custom food]: handleAddCustomFood opens
ProcessInput_Enter_custom ==
    /\ InMainMenu
    /\ selectedIndex = 1
    /\ "custom" \in lim.screens
    /\ pc' = "handleAddCustomFood"
    /\ localSelection' = 0
    /\ foodName' = <<>>
    /\ fieldValues' = <<-1, -1, -1, -1, -1>>
    /\ foodIndex' = 0
    /\ lastOp' = "open_custom"
    /\ UNCHANGED <<file, cin, dailyGoals, records, firstRun, g_foodTemplates,
                   currentState, currentDate, selectedIndex, foodScrollOffset,
                   capturesLeft>>
    /\ UNCHANGED <<envVars, calVars, pickVars, createVars>>

\* key Enter on [Calendar]
ProcessInput_Enter_calendar ==
    /\ InMainMenu
    /\ selectedIndex = 2
    /\ "calendar" \in lim.screens
    /\ calendarOriginalDate' = currentDate
    /\ currentState' = "STATE_CALENDAR"
    /\ selectedCalendarDay' = 1
    /\ lastOp' = "open_calendar"
    /\ UNCHANGED <<pc, file, cin, dailyGoals, records, firstRun,
                   g_foodTemplates, currentDate, selectedIndex,
                   foodScrollOffset, capturesLeft>>
    /\ UNCHANGED <<envVars, formVars, pickVars, createVars>>

\* key Enter on [Reset goals]: handleResetGoals opens on the current goals
ProcessInput_Enter_reset ==
    /\ InMainMenu
    /\ selectedIndex = 3
    /\ "reset" \in lim.screens
    /\ pc' = "handleResetGoals"
    /\ localSelection' = 0
    /\ foodName' = <<>>
    /\ fieldValues' = <<dailyGoals.calories, dailyGoals.carbs,
                        dailyGoals.protein, dailyGoals.fat>>
    /\ foodIndex' = 0
    /\ lastOp' = "open_reset"
    /\ UNCHANGED <<file, cin, dailyGoals, records, firstRun, g_foodTemplates,
                   currentState, currentDate, selectedIndex, foodScrollOffset,
                   capturesLeft>>
    /\ UNCHANGED <<envVars, calVars, pickVars, createVars>>

\* faulty variant of ProcessInput_Enter_food: the entry is counted from the
\* first row shown, not from the first food
ProcessInput_Enter_food_Row ==
    /\ InMainMenu
    /\ selectedIndex >= menuCount
    /\ "edit" \in lim.screens
    /\ LET fi == selectedIndex - menuCount - foodScrollOffset
           f == FoodsOf(records, currentDate)[fi + 1]
       IN  /\ fi >= 0 /\ fi < foodCount
           /\ foodIndex' = fi
           /\ foodName' = f.name
           /\ fieldValues' = <<f.calories, f.carbs, f.protein, f.fat, f.grams>>
    /\ pc' = "handleEditFood"
    /\ localSelection' = 0
    /\ lastOp' = "open_edit"
    /\ UNCHANGED <<file, cin, dailyGoals, records, firstRun, g_foodTemplates,
                   currentState, currentDate, selectedIndex, foodScrollOffset,
                   capturesLeft>>
    /\ UNCHANGED <<envVars, calVars, pickVars, createVars>>

\* key Enter on a food entry: handleEditFood(foodIndex) opens on its values
ProcessInput_Enter_food ==
    /\ InMainMenu
    /\ selectedIndex >= menuCount
    /\ "edit" \in lim.screens
    /\ LET fi == selectedIndex - menuCount
           f == FoodsOf(records, currentDate)[fi + 1]
       IN  /\ fi >= 0 /\ fi < foodCount
           /\ foodIndex' = fi
           /\ foodName' = f.name
           /\ fieldValues' = <<f.calories, f.carbs, f.protein, f.fat, f.grams>>
    /\ pc' = "handleEditFood"
    /\ localSelection' = 0
    /\ lastOp' = "open_edit"
    /\ UNCHANGED <<file, cin, dailyGoals, records, firstRun, g_foodTemplates,
                   currentState, currentDate, selectedIndex, foodScrollOffset,
                   capturesLeft>>
    /\ UNCHANGED <<envVars, calVars, pickVars, createVars>>

(***************************************************************************)
(* std::getline(std::cin, input)                                           *)
(***************************************************************************)
\* The line a std::getline(std::cin, input) delivers when the user would
\* type the line typed: a failed stream delivers nothing (input stays
\* empty), a line left unread by an earlier std::cin >> is delivered first.
GetLine(typed) ==
    IF cin.fail THEN [line |-> <<>>, cin |-> cin]
    ELSE IF cin.pending # <<>>
    THEN [line |-> Head(cin.pending), cin |-> [cin EXCEPT !.pending = Tail(@)]]
    ELSE [line |-> typed, cin |-> cin]

(***************************************************************************)
(* handleAddCustomFood and handleEditFood: six fields and a button         *)
(***************************************************************************)
InFoodForm == pc \in {"handleAddCustomFood", "handleEditFood"}

\* faulty variant of FormAdvance: the focus stops at the button
FormAdvance_Stop(sel, last) == IF sel + 1 > last THEN last ELSE sel + 1

\* key 'j' in a form whose button has the index last: localSelection++, and
\* 0 once it is past the button
FormAdvance(sel, last) == IF sel + 1 > last THEN 0 ELSE sel + 1

\* key 'k' in a form whose button has the index last: localSelection--, and
\* the button once it is below 0
FormRetreat(sel, last) == IF sel - 1 < 0 THEN last ELSE sel - 1

FoodForm_j ==
    /\ InFoodForm
    /\ localSelection' = FormAdvance(localSelection, 6)
    /\ lastOp' = "form_j"
    /\ UNCHANGED <<pc, file, cin, dailyGoals, records, firstRun,
                   g_foodTemplates, currentState, currentDate, selectedIndex,
                   foodScrollOffset, foodName, fieldValues, foodIndex,
                   capturesLeft>>
    /\ UNCHANGED <<envVars, calVars, pickVars, createVars>>

FoodForm_k ==
    /\ InFoodForm
    /\ localSelection' = FormRetreat(localSelection, 6)
    /\ lastOp' = "form_k"
    /\ UNCHANGED <<pc, file, cin, dailyGoals, records, firstRun,
                   g_foodTemplates, currentState, currentDate, selectedIndex,
                   foodScrollOffset, foodName, fieldValues, foodIndex,
                   capturesLeft>>
    /\ UNCHANGED <<envVars, calVars, pickVars, createVars>>

\* the name a food form holds after the line input was read for it
EditedName(old, input) ==
    IF input = <<>> THEN old
    ELSE IF Len(input) > maxNameLen THEN Prefix(input, maxNameLen)
    ELSE input

\* the value a numeric field of a food form or of handleResetGoals holds
\* after the line input was read for it
EditedValue(old, input) ==
    IF input = <<>> THEN old
    ELSE IF Stoi(input).ok THEN Stoi(input).value
    ELSE old

\* key Enter on one of the six fields when the user would type the line
\* typed: a line is read into the field
FoodForm_Enter_field_line(typed) ==
    /\ InFoodForm
    /\ localSelection >= 0 /\ localSelection < 6
    /\ capturesLeft > 0
    /\ LET g == GetLine(typed)
       IN  /\ cin' = g.cin
           /\ foodName' = IF localSelection = 0
                          THEN EditedName(foodName, g.line) ELSE foodName
           /\ fieldValues' =
                 IF localSelection = 0 THEN fieldValues
                 ELSE [fieldValues EXCEPT
                         ![localSelection] = EditedValue(@, g.line)]
    /\ capturesLeft' = capturesLeft - 1
    /\ lastOp' = "form_field"
    /\ UNCHANGED <<pc, file, dailyGoals, records, firstRun, g_foodTemplates,
                   currentState, currentDate, selectedIndex, foodScrollOffset,
                   localSelection, foodIndex>>
    /\ UNCHANGED <<envVars, calVars, pickVars, createVars>>

\* key Enter on one of the six fields
FoodForm_Enter_field == \E typed \in lim.lines : FoodForm_Enter_field_line(typed)

\* the name a food form commits
FinalName(name) == IF name = <<>> THEN kEmptyName ELSE name

\* handleAddCustomFood: finalCalories .. finalGrams
FinalValue(v) == IF v = -1 THEN 0 ELSE v

\* handleAddCustomFood, key Enter on [Add]: the food made of the name and
\* the five numbers the form holds
CustomFood(name, values) ==
    Food(FinalName(name), FinalValue(values[1]), FinalValue(values[2]),
         FinalValue(values[3]), FinalValue(values[4]), FinalValue(values[5]))

\* handleAddCustomFood, key Enter on [Add]: the food is appended and saved
AddCustomFood_Enter_add ==
    /\ pc = "handleAddCustomFood"
    /\ localSelection = 6
    /\ LET recs0 == GetRecord(records, currentDate)
           pos == RecordIndex(recs0, currentDate)
           food == CustomFood(foodName, fieldValues)
           recs == [recs0 EXCEPT ![pos].foods = Append(@, food)]
       IN  /\ Len(recs0[pos].foods) < lim.maxFoods
           /\ SaveData(dailyGoals, recs)
           /\ RenderMainMenu(recs, currentDate, foodScrollOffset)
    /\ NoForm
    /\ lastOp' = "add_custom"
    /\ UNCHANGED <<cin, dailyGoals, firstRun, g_foodTemplates, currentDate,
                   selectedIndex, capturesLeft>>
    /\ UNCHANGED <<envVars, calVars, pickVars, createVars>>

\* faulty variant of EditFood_Enter_update: the first entry of the record is
\* overwritten
EditFood_Enter_update_First ==
    /\ pc = "handleEditFood"
    /\ localSelection = 6
    /\ LET pos == RecordIndex(records, currentDate)
           food == Food(FinalName(foodName), fieldValues[1], fieldValues[2],
                        fieldValues[3], fieldValues[4], fieldValues[5])
           recs == [records EXCEPT ![pos].foods[1] = food]
       IN  /\ SaveData(dailyGoals, recs)
           /\ RenderMainMenu(recs, currentDate, foodScrollOffset)
    /\ NoForm
    /\ lastOp' = "edit_commit"
    /\ UNCHANGED <<cin, dailyGoals, firstRun, g_foodTemplates, currentDate,
                   selectedIndex, capturesLeft>>
    /\ UNCHANGED <<envVars, calVars, pickVars, createVars>>

\* handleEditFood, key Enter on [Update]: the entry is overwritten and saved
EditFood_Enter_update ==
    /\ pc = "handleEditFood"
    /\ localSelection = 6
    /\ LET pos == RecordIndex(records, currentDate)
           food == Food(FinalName(foodName), fieldValues[1], fieldValues[2],
                        fieldValues[3], fieldValues[4], fieldValues[5])
           recs == [records EXCEPT ![pos].foods[foodIndex + 1] = food]
       IN  /\ SaveData(dailyGoals, recs)
           /\ RenderMainMenu(recs, currentDate, foodScrollOffset)
    /\ NoForm
    /\ lastOp' = "edit_commit"
    /\ UNCHANGED <<cin, dailyGoals, firstRun, g_foodTemplates, currentDate,
                   selectedIndex, capturesLeft>>
    /\ UNCHANGED <<envVars, calVars, pickVars, createVars>>

\* faulty variant of FoodForm_q: the main menu comes back on the first date
\* the run showed
FoodForm_q_FirstDate ==
    /\ InFoodForm
    /\ \E d \in lim.todays :
           /\ currentDate' = d
           /\ RenderMainMenu(records, d, foodScrollOffset)
    /\ NoForm
    /\ lastOp' = "form_cancel"
    /\ UNCHANGED <<file, cin, dailyGoals, firstRun, g_foodTemplates,
                   selectedIndex, capturesLeft>>
    /\ UNCHANGED <<envVars, calVars, pickVars, createVars>>

\* key 'q' in a food form: back to the main menu, nothing written
FoodForm_q ==
    /\ InFoodForm
    /\ RenderMainMenu(records, currentDate, foodScrollOffset)
    /\ NoForm
    /\ lastOp' = "form_cancel"
    /\ UNCHANGED <<file, cin, dailyGoals, firstRun, g_foodTemplates,
                   currentDate, selectedIndex, capturesLeft>>
    /\ UNCHANGED <<envVars, calVars, pickVars, createVars>>

(***************************************************************************)
(* handleStartGoals and handleResetGoals: four fields and a button         *)
(***************************************************************************)
InGoalsForm == pc \in {"handleStartGoals", "handleResetGoals"}

GoalsForm_j ==
    /\ InGoalsForm
    /\ localSelection' = FormAdvance(localSelection, 4)
    /\ lastOp' = "form_j"
    /\ UNCHANGED <<pc, file, cin, dailyGoals, records, firstRun,
                   g_foodTemplates, currentState, currentDate, selectedIndex,
                   foodScrollOffset, foodName, fieldValues, foodIndex,
                   capturesLeft>>
    /\ UNCHANGED <<envVars, calVars, pickVars, createVars>>

GoalsForm_k ==
    /\ InGoalsForm
    /\ localSelection' = FormRetreat(localSelection, 4)
    /\ lastOp' = "form_k"
    /\ UNCHANGED <<pc, file, cin, dailyGoals, records, firstRun,
                   g_foodTemplates, currentState, currentDate, selectedIndex,
                   foodScrollOffset, foodName, fieldValues, foodIndex,
                   capturesLeft>>
    /\ UNCHANGED <<envVars, calVars, pickVars, createVars>>

\* handleStartGoals: the value a field holds after the line input was read
StartGoalsValue(input) ==
    IF input = <<>> THEN 0
    ELSE IF Stoi(input).ok THEN Stoi(input).value
    ELSE 0

\* key Enter on one of the four fields when the user would type the line
\* typed: a line is read into the field
GoalsForm_Enter_field_line(typed) ==
    /\ InGoalsForm
    /\ localSelection < 4
    /\ capturesLeft > 0
    /\ LET g == GetLine(typed)
       IN  /\ cin' = g.cin
           /\ fieldValues' =
                 [fieldValues EXCEPT ![localSelection + 1] =
                     IF pc = "handleStartGoals" THEN StartGoalsValue(g.line)
                     ELSE EditedValue(@, g.line)]
    /\ capturesLeft' = capturesLeft - 1
    /\ lastOp' = "form_field"
    /\ UNCHANGED <<pc, file, dailyGoals, records, firstRun, g_foodTemplates,
                   currentState, currentDate, selectedIndex, foodScrollOffset,
                   localSelection, foodName, foodIndex>>
    /\ UNCHANGED <<envVars, calVars, pickVars, createVars>>

\* key Enter on one of the four fields
GoalsForm_Enter_field == \E typed \in lim.lines : GoalsForm_Enter_field_line(typed)

\* key Enter on [Start] / [Update]: setDailyGoals, saveData
GoalsForm_Enter_commit ==
    /\ InGoalsForm
    /\ ~(localSelection < 4)
    /\ LET newGoals == [calories |-> fieldValues[1], carbs |-> fieldValues[2],
                        protein |-> fieldValues[3], fat |-> fieldValues[4]]
       IN  /\ dailyGoals' = newGoals
           /\ SaveData(newGoals, records)
    /\ RenderMainMenu(records, currentDate, foodScrollOffset)
    /\ NoForm
    /\ lastOp' = IF pc = "handleStartGoals" THEN "start_commit"
                 ELSE "reset_commit"
    /\ UNCHANGED <<cin, firstRun, g_foodTemplates, currentDate, selectedIndex,
                   capturesLeft>>
    /\ UNCHANGED <<envVars, calVars, pickVars, createVars>>

\* faulty variant of GoalsForm_q: the fields are written to the goals on the
\* way out
GoalsForm_q_Writes ==
    /\ InGoalsForm
    /\ dailyGoals' = [calories |-> fieldValues[1], carbs |-> fieldValues[2],
                      protein |-> fieldValues[3], fat |-> fieldValues[4]]
    /\ RenderMainMenu(records, currentDate, foodScrollOffset)
    /\ NoForm
    /\ lastOp' = "form_cancel"
    /\ UNCHANGED <<file, cin, firstRun, g_foodTemplates, currentDate,
                   selectedIndex, capturesLeft>>
    /\ UNCHANGED <<envVars, calVars, pickVars, createVars>>

\* key 'q' in a goals form: the goals stay as they are
GoalsForm_q ==
    /\ InGoalsForm
    /\ RenderMainMenu(records, currentDate, foodScrollOffset)
    /\ NoForm
    /\ lastOp' = "form_cancel"
    /\ UNCHANGED <<file, cin, dailyGoals, firstRun, g_foodTemplates,
                   currentDate, selectedIndex, capturesLeft>>
    /\ UNCHANGED <<envVars, calVars, pickVars, createVars>>

(***************************************************************************)
(* handleAddFromTemplate: the template picker                              *)
(***************************************************************************)
\* the printable characters in the order of their codes (the double quote,
\* the backslash and the backquote left out)
Ascii ==
    <<" ", "!", "#", "$", "%", "&", "'", "(", ")", "*", "+", ",",
      "-", ".", "/", "0", "1", "2", "3", "4", "5", "6", "7", "8",
      "9", ":", ";", "<", "=", ">", "?", "@", "A", "B", "C", "D",
      "E", "F", "G", "H", "I", "J", "K", "L", "M", "N", "O", "P",
      "Q", "R", "S", "T", "U", "V", "W", "X", "Y", "Z", "[", "]",
      "^", "_", "a", "b", "c", "d", "e", "f", "g", "h", "i", "j",
      "k", "l", "m", "n", "o", "p", "q", "r", "s", "t", "u", "v",
      "w", "x", "y", "z", "{", "|", "}", "~">>

\* the rank of a character in the order of the character codes
CharCode(c) == CHOOSE i \in 1..Len(Ascii) : Ascii[i] = c

\* std::string operator<
RECURSIVE LexLess(_, _)
LexLess(a, b) ==
    IF b = <<>> THEN FALSE
    ELSE IF a = <<>> THEN TRUE
    ELSE IF Head(a) = Head(b) THEN LexLess(Tail(a), Tail(b))
    ELSE CharCode(Head(a)) < CharCode(Head(b))

\* s without the first of its elements equal to v
RemoveOne(s, v) ==
    LET i == CHOOSE k \in 1..Len(s) : s[k] = v /\ \A j \in 1..(k - 1) : s[j] # v
    IN  SubSeq(s, 1, i - 1) \o SubSeq(s, i + 1, Len(s))

\* std::sort by name: every arrangement of s in which no template comes
\* after one of a greater name (std::sort leaves the order of templates of
\* equal names unspecified)
RECURSIVE SortByName(_)
SortByName(s) ==
    IF s = <<>> THEN {<<>>}
    ELSE LET firsts == {s[i] : i \in {k \in 1..Len(s) :
                            \A j \in 1..Len(s) : ~LexLess(s[j].name, s[k].name)}}
         IN  UNION {{<<v>> \o r : r \in SortByName(RemoveOne(s, v))} : v \in firsts}

\* matches: the templates whose name contains the search term
Matches(templates, term) ==
    SelectSeq(templates, LAMBDA tpl : Contains(tpl.name, term))

matches == Matches(g_foodTemplates, searchTerm)

totalOptions == 2 + Len(matches)

\* int visibleRows = CONSOLE_HEIGHT - popUpTop - 6
visibleRows ==
    LET midY == CONSOLE_HEIGHT \div 2
        popUpTop == midY - 4
    IN  CONSOLE_HEIGHT - popUpTop - 6

\* "Adjust scrolling if a template is selected", at the top of the loop
AdjustTemplateScroll(sel, scroll) ==
    IF sel >= 2
    THEN (IF sel - 2 < scroll THEN sel - 2
          ELSE IF sel - 2 >= visibleRows THEN sel - 2 - visibleRows + 1
          ELSE scroll)
    ELSE scroll

InPicker == pc = "handleAddFromTemplate"

\* the picker's loop comes back to _getch with this selection, search term,
\* editing flag and scroll offset
PickerLoop(sel, term, editing, scroll) ==
    /\ pc' = "handleAddFromTemplate"
    /\ localSelection' = sel
    /\ searchTerm' = term
    /\ searchEditing' = editing
    /\ templateScrollOffset' = AdjustTemplateScroll(sel, scroll)

\* key Enter on [Search], not editing: editing starts
Picker_search_begin ==
    /\ InPicker /\ localSelection = 0 /\ ~searchEditing
    /\ PickerLoop(localSelection, searchTerm, TRUE, templateScrollOffset)
    /\ lastOp' = "search_begin"
    /\ UNCHANGED <<file, cin, dailyGoals, records, firstRun, g_foodTemplates,
                   currentState, currentDate, selectedIndex, foodScrollOffset,
                   foodName, fieldValues, foodIndex, capturesLeft>>
    /\ UNCHANGED <<envVars, calVars, createVars>>

\* key Enter while editing the search term: editing ends
Picker_search_end ==
    /\ InPicker /\ localSelection = 0 /\ searchEditing
    /\ PickerLoop(localSelection, searchTerm, FALSE, templateScrollOffset)
    /\ lastOp' = "search_end"
    /\ UNCHANGED <<file, cin, dailyGoals, records, firstRun, g_foodTemplates,
                   currentState, currentDate, selectedIndex, foodScrollOffset,
                   foodName, fieldValues, foodIndex, capturesLeft>>
    /\ UNCHANGED <<envVars, calVars, createVars>>

\* key Backspace while editing the search term
Picker_search_backspace ==
    /\ InPicker /\ localSelection = 0 /\ searchEditing
    /\ PickerLoop(localSelection,
                  IF searchTerm # <<>>
                  THEN SubSeq(searchTerm, 1, Len(searchTerm) - 1) ELSE searchTerm,
                  searchEditing, templateScrollOffset)
    /\ lastOp' = "search_backspace"
    /\ UNCHANGED <<file, cin, dailyGoals, records, firstRun, g_foodTemplates,
                   currentState, currentDate, selectedIndex, foodScrollOffset,
                   foodName, fieldValues, foodIndex, capturesLeft>>
    /\ UNCHANGED <<envVars, calVars, createVars>>

\* a printable key while editing the search term
Picker_search_type ==
    /\ InPicker /\ localSelection = 0 /\ searchEditing
    /\ Len(searchTerm) < lim.maxSearch
    /\ \E key \in lim.searchKeys :
          PickerLoop(localSelection, Append(searchTerm, key), searchEditing,
                     templateScrollOffset)
    /\ lastOp' = "search_type"
    /\ UNCHANGED <<file, cin, dailyGoals, records, firstRun, g_foodTemplates,
                   currentState, currentDate, selectedIndex, foodScrollOffset,
                   foodName, fieldValues, foodIndex, capturesLeft>>
    /\ UNCHANGED <<envVars, calVars, createVars>>

\* the keys below are handled unless the search term is being edited
PickerKeys == InPicker /\ ~(localSelection = 0 /\ searchEditing)

Picker_j ==
    /\ PickerKeys
    /\ PickerLoop(IF localSelection + 1 >= totalOptions THEN 0
                  ELSE localSelection + 1,
                  searchTerm, searchEditing, templateScrollOffset)
    /\ lastOp' = "picker_j"
    /\ UNCHANGED <<file, cin, dailyGoals, records, firstRun, g_foodTemplates,
                   currentState, currentDate, selectedIndex, foodScrollOffset,
                   foodName, fieldValues, foodIndex, capturesLeft>>
    /\ UNCHANGED <<envVars, calVars, createVars>>

Picker_k ==
    /\ PickerKeys
    /\ PickerLoop(IF localSelection > 0 THEN localSelection - 1
                  ELSE totalOptions - 1,
                  searchTerm, searchEditing, templateScrollOffset)
    /\ lastOp' = "picker_k"
    /\ UNCHANGED <<file, cin, dailyGoals, records, firstRun, g_foodTemplates,
                   currentState, currentDate, selectedIndex, foodScrollOffset,
                   foodName, fieldValues, foodIndex, capturesLeft>>
    /\ UNCHANGED <<envVars, calVars, createVars>>

\* key Enter on [Create new template]: the create-template form opens
Picker_Enter_create ==
    /\ PickerKeys /\ localSelection = 1
    /\ pc' = "createTemplate"
    /\ editSelection' = 0
    /\ tplName' = <<>>
    /\ fieldValues' = <<0, 0, 0, 0>>
    /\ lastOp' = "open_create"
    /\ UNCHANGED <<file, cin, dailyGoals, records, firstRun, g_foodTemplates,
                   currentState, currentDate, selectedIndex, foodScrollOffset,
                   localSelection, foodName, foodIndex, capturesLeft>>
    /\ UNCHANGED <<envVars, calVars, pickVars>>

\* C++ integer division, which truncates towards zero
TruncDiv(a, b) == IF a >= 0 THEN a \div b ELSE -((-a) \div b)

InInt(n) == n <= INT_MAX /\ n >= -INT_MAX - 1

\* (selectedTemplate.calories * grams) / 100 and the like; a product that
\* overflows int is undefined behaviour
Scaled(v, grams) ==
    IF InInt(v * grams) THEN {TruncDiv(v * grams, 100)} ELSE lim.indeterminate

\* std::cin >> grams when the user would type the line typed: the values
\* grams may hold afterwards and the stream afterwards.  On a failed stream
\* nothing is stored and grams is read uninitialized.
ReadGrams(typed) ==
    LET src == IF cin.pending # <<>> /\ SkipWs(Head(cin.pending)) # <<>>
               THEN Head(cin.pending) ELSE typed
        r == ScanInt(src)
    IN  IF cin.fail THEN [values |-> lim.indeterminate, cin |-> cin]
        ELSE IF r.digits = 0
        THEN [values |-> {0}, cin |-> [fail |-> TRUE, pending |-> <<>>]]
        ELSE IF ~r.ok
        THEN [values |-> {IF r.value > 0 THEN INT_MAX ELSE -INT_MAX - 1},
              cin |-> [fail |-> TRUE, pending |-> <<>>]]
        ELSE [values |-> {r.value},
              cin |-> [fail |-> FALSE, pending |-> <<r.rest>>]]

\* key Enter on a template when the user would type the line typed at the
\* grams prompt: grams are read, the scaled food is appended to the record
\* of the current date and saved, a key is awaited, and the picker returns
\* to the main menu
Picker_Enter_template_grams(typed) ==
    /\ PickerKeys /\ localSelection >= 2
    /\ LET templateIndex == localSelection - 2 + templateScrollOffset
           recs0 == GetRecord(records, currentDate)
           pos == RecordIndex(recs0, currentDate)
       IN  /\ templateIndex >= 0 /\ templateIndex < Len(matches)
           /\ Len(recs0[pos].foods) < lim.maxFoods
           /\ LET rd == ReadGrams(typed)
                  t == matches[templateIndex + 1]
              IN  /\ cin' = rd.cin
                  /\ \E grams \in rd.values :
                     \E cal \in Scaled(t.calories, grams) :
                     \E c \in Scaled(t.carbs, grams) :
                     \E p \in Scaled(t.protein, grams) :
                     \E f \in Scaled(t.fat, grams) :
                        LET recs == [recs0 EXCEPT ![pos].foods =
                                       Append(@, Food(t.name, cal, c, p, f, grams))]
                        IN  /\ SaveData(dailyGoals, recs)
                            /\ RenderMainMenu(recs, currentDate, foodScrollOffset)
    /\ NoForm /\ NoPicker
    /\ lastOp' = "add_template"
    /\ UNCHANGED <<dailyGoals, firstRun, g_foodTemplates, currentDate,
                   selectedIndex, capturesLeft>>
    /\ UNCHANGED <<envVars, calVars, createVars>>

Picker_Enter_template ==
    \E typed \in lim.gramsLines : Picker_Enter_template_grams(typed)

\* key Enter on a row that holds no template: nothing happens
Picker_Enter_none ==
    /\ PickerKeys /\ localSelection >= 2
    /\ LET templateIndex == localSelection - 2 + templateScrollOffset
       IN  ~(templateIndex >= 0 /\ templateIndex < Len(matches))
    /\ PickerLoop(localSelection, searchTerm, searchEditing, templateScrollOffset)
    /\ lastOp' = "picker_enter_none"
    /\ UNCHANGED <<file, cin, dailyGoals, records, firstRun, g_foodTemplates,
                   currentState, currentDate, selectedIndex, foodScrollOffset,
                   foodName, fieldValues, foodIndex, capturesLeft>>
    /\ UNCHANGED <<envVars, calVars, createVars>>

\* faulty variant of RemoveByName: the first template of the name goes, the
\* others of that name stay
RemoveByName_First(templates, name) ==
    LET first == CHOOSE i \in 1..Len(templates) :
                     /\ templates[i].name = name
                     /\ \A j \in 1..(i - 1) : templates[j].name # name
    IN  SubSeq(templates, 1, first - 1)
            \o SubSeq(templates, first + 1, Len(templates))

\* std::remove_if over g_foodTemplates with tpl.name == name, then erase
RemoveByName(templates, name) ==
    SelectSeq(templates, LAMBDA tpl : tpl.name # name)

\* key 'x': the templates of the targeted name are removed; the search term,
\* the selection and the scroll offset are reset
Picker_x ==
    /\ PickerKeys
    /\ LET index == localSelection - 2 + templateScrollOffset
       IN  IF localSelection >= 2 /\ index >= 0 /\ index < Len(matches)
           THEN /\ g_foodTemplates' =
                      RemoveByName(g_foodTemplates, matches[index + 1].name)
                /\ PickerLoop(0, <<>>, searchEditing, 0)
           ELSE /\ g_foodTemplates' = g_foodTemplates
                /\ PickerLoop(localSelection, searchTerm, searchEditing,
                              templateScrollOffset)
    /\ lastOp' = "picker_x"
    /\ UNCHANGED <<file, cin, dailyGoals, records, firstRun, currentState,
                   currentDate, selectedIndex, foodScrollOffset, foodName,
                   fieldValues, foodIndex, capturesLeft>>
    /\ UNCHANGED <<envVars, calVars, createVars>>

\* key 'q': back to the main menu
Picker_q ==
    /\ PickerKeys
    /\ RenderMainMenu(records, currentDate, foodScrollOffset)
    /\ NoForm /\ NoPicker
    /\ lastOp' = "picker_cancel"
    /\ UNCHANGED <<file, cin, dailyGoals, firstRun, g_foodTemplates,
                   currentDate, selectedIndex, capturesLeft>>
    /\ UNCHANGED <<envVars, calVars, createVars>>

(***************************************************************************)
(* handleAddFromTemplate: the create-template form, five fields and [Add]  *)
(***************************************************************************)
InCreate == pc = "createTemplate"

Create_j ==
    /\ InCreate
    /\ editSelection' = FormAdvance(editSelection, 5)
    /\ lastOp' = "form_j"
    /\ UNCHANGED <<pc, file, cin, dailyGoals, records, firstRun,
                   g_foodTemplates, currentState, currentDate, selectedIndex,
                   foodScrollOffset, tplName, capturesLeft>>
    /\ UNCHANGED <<envVars, calVars, formVars, pickVars>>

Create_k ==
    /\ InCreate
    /\ editSelection' = FormRetreat(editSelection, 5)
    /\ lastOp' = "form_k"
    /\ UNCHANGED <<pc, file, cin, dailyGoals, records, firstRun,
                   g_foodTemplates, currentState, currentDate, selectedIndex,
                   foodScrollOffset, tplName, capturesLeft>>
    /\ UNCHANGED <<envVars, calVars, formVars, pickVars>>

\* the value a numeric field of the create-template form holds after the
\* line input was read for it
CreateValue(old, input) == IF Stoi(input).ok THEN Stoi(input).value ELSE old

\* key Enter on one of the five fields when the user would type the line
\* typed: a line is read into the field
Create_Enter_field_line(typed) ==
    /\ InCreate
    /\ editSelection < 5
    /\ capturesLeft > 0
    /\ LET g == GetLine(typed)
       IN  /\ cin' = g.cin
           /\ tplName' = IF editSelection = 0 THEN g.line ELSE tplName
           /\ fieldValues' =
                 IF editSelection = 0 THEN fieldValues
                 ELSE [fieldValues EXCEPT
                         ![editSelection] = CreateValue(@, g.line)]
    /\ capturesLeft' = capturesLeft - 1
    /\ lastOp' = "form_field"
    /\ UNCHANGED <<pc, file, dailyGoals, records, firstRun, g_foodTemplates,
                   currentState, currentDate, selectedIndex, foodScrollOffset,
                   localSelection, foodName, foodIndex, editSelection>>
    /\ UNCHANGED <<envVars, calVars, pickVars>>

\* key Enter on one of the five fields
Create_Enter_field == \E typed \in lim.lines : Create_Enter_field_line(typed)

\* key Enter on [Add]: the template is appended, the list is sorted by name,
\* and the picker goes on with the selection on row 2
Create_Enter_add ==
    /\ InCreate
    /\ ~(editSelection < 5)
    /\ Len(g_foodTemplates) < lim.maxTemplates
    /\ LET newTpl == Food(tplName, fieldValues[1], fieldValues[2],
                          fieldValues[3], fieldValues[4], 0)
       IN  g_foodTemplates' \in SortByName(Append(g_foodTemplates, newTpl))
    /\ PickerLoop(2, searchTerm, searchEditing, templateScrollOffset)
    /\ fieldValues' = <<>>
    /\ NoCreate
    /\ lastOp' = "create_commit"
    /\ UNCHANGED <<file, cin, dailyGoals, records, firstRun, currentState,
                   currentDate, selectedIndex, foodScrollOffset, foodName,
                   foodIndex, capturesLeft>>
    /\ UNCHANGED <<envVars, calVars>>

\* key 'q': the form is left, the picker goes on with the selection on row 2
Create_q ==
    /\ InCreate
    /\ PickerLoop(2, searchTerm, searchEditing, templateScrollOffset)
    /\ fieldValues' = <<>>
    /\ NoCreate
    /\ lastOp' = "create_cancel"
    /\ UNCHANGED <<file, cin, dailyGoals, records, firstRun, g_foodTemplates,
                   currentState, currentDate, selectedIndex, foodScrollOffset,
                   foodName, foodIndex, capturesLeft>>
    /\ UNCHANGED <<envVars, calVars>>

(***************************************************************************)
(* UIManager::processCalendarInput                                         *)
(***************************************************************************)
InCalendar == pc = "run" /\ currentState = "STATE_CALENDAR"

\* day, month, year of currentDate
cal == ParseDate(currentDate)

\* int col = (startWeekday + selectedCalendarDay - 1) % 7
\* faulty variant of CalendarCol: the weekday of the first is left out
CalendarCol_NoStart(m, y, selected) == (selected - 1) % 7

CalendarCol(m, y, selected) == (StartWeekday(m, y) + selected - 1) % 7

\* faulty variant of PagedMonth: the year is not carried
PagedMonth_NoCarry(c, step) ==
    IF step < 0
    THEN [month |-> IF c.month - 1 < 1 THEN 12 ELSE c.month - 1, year |-> c.year]
    ELSE [month |-> IF c.month + 1 > 12 THEN 1 ELSE c.month + 1, year |-> c.year]

\* keys 'b' (step -1) and 'w' (step 1): month-- or month++ with the year
\* carried at the 12/1 boundary
PagedMonth(c, step) ==
    IF step < 0
    THEN (IF c.month - 1 < 1
          THEN [month |-> 12, year |-> c.year - 1]
          ELSE [month |-> c.month - 1, year |-> c.year])
    ELSE (IF c.month + 1 > 12
          THEN [month |-> 1, year |-> c.year + 1]
          ELSE [month |-> c.month + 1, year |-> c.year])

\* faulty variant of Calendar_bw: the cursor stays on its day when the month
\* is paged
Calendar_bw_KeepCursor(step) ==
    /\ InCalendar
    /\ \E c \in {cal} :
       \E n \in {PagedMonth(c, step)} :
           /\ n.year * 12 + n.month >= lim.monthLo
           /\ n.year * 12 + n.month <= lim.monthHi
           /\ currentDate' = FormatDate(c.day, n.month, n.year)
    /\ selectedCalendarDay' = selectedCalendarDay
    /\ lastOp' = IF step < 0 THEN "cal_b" ELSE "cal_w"
    /\ UNCHANGED <<pc, file, cin, dailyGoals, records, firstRun,
                   g_foodTemplates, currentState, calendarOriginalDate,
                   selectedIndex, foodScrollOffset, capturesLeft>>
    /\ UNCHANGED <<envVars, formVars, pickVars, createVars>>

\* keys 'b' and 'w': the month of currentDate changes, its day of month
\* stays, the cursor goes to day 1
Calendar_bw(step) ==
    /\ InCalendar
    /\ \E c \in {cal} :
       \E n \in {PagedMonth(c, step)} :
           /\ n.year * 12 + n.month >= lim.monthLo
           /\ n.year * 12 + n.month <= lim.monthHi
           /\ currentDate' = FormatDate(c.day, n.month, n.year)
    /\ selectedCalendarDay' = 1
    /\ lastOp' = IF step < 0 THEN "cal_b" ELSE "cal_w"
    /\ UNCHANGED <<pc, file, cin, dailyGoals, records, firstRun,
                   g_foodTemplates, currentState, calendarOriginalDate,
                   selectedIndex, foodScrollOffset, capturesLeft>>
    /\ UNCHANGED <<envVars, formVars, pickVars, createVars>>

Calendar_b == Calendar_bw(-1)

Calendar_w == Calendar_bw(1)

\* key 'h'
Calendar_h ==
    /\ InCalendar
    /\ selectedCalendarDay' =
          IF selectedCalendarDay > 1
             /\ CalendarCol(cal.month, cal.year, selectedCalendarDay) > 0
          THEN selectedCalendarDay - 1 ELSE selectedCalendarDay
    /\ lastOp' = "cal_h"
    /\ UNCHANGED <<pc, file, cin, dailyGoals, records, firstRun,
                   g_foodTemplates, currentState, currentDate,
                   calendarOriginalDate, selectedIndex, foodScrollOffset,
                   capturesLeft>>
    /\ UNCHANGED <<envVars, formVars, pickVars, createVars>>

\* faulty variant of Calendar_l: the cursor goes on past the last day of the
\* month
Calendar_l_NoEnd ==
    /\ InCalendar
    /\ selectedCalendarDay' =
          IF CalendarCol(cal.month, cal.year, selectedCalendarDay) < 6
          THEN selectedCalendarDay + 1 ELSE selectedCalendarDay
    /\ lastOp' = "cal_l"
    /\ UNCHANGED <<pc, file, cin, dailyGoals, records, firstRun,
                   g_foodTemplates, currentState, currentDate,
                   calendarOriginalDate, selectedIndex, foodScrollOffset,
                   capturesLeft>>
    /\ UNCHANGED <<envVars, formVars, pickVars, createVars>>

\* key 'l'
Calendar_l ==
    /\ InCalendar
    /\ selectedCalendarDay' =
          IF CalendarCol(cal.month, cal.year, selectedCalendarDay) < 6
             /\ selectedCalendarDay < DaysInMonth(cal.month, cal.year)
          THEN selectedCalendarDay + 1 ELSE selectedCalendarDay
    /\ lastOp' = "cal_l"
    /\ UNCHANGED <<pc, file, cin, dailyGoals, records, firstRun,
                   g_foodTemplates, currentState, currentDate,
                   calendarOriginalDate, selectedIndex, foodScrollOffset,
                   capturesLeft>>
    /\ UNCHANGED <<envVars, formVars, pickVars, createVars>>

\* faulty variant of Calendar_j: the cursor is clamped to the last day
Calendar_j_Clamp ==
    /\ InCalendar
    /\ selectedCalendarDay' =
          IF selectedCalendarDay + 7 <= DaysInMonth(cal.month, cal.year)
          THEN selectedCalendarDay + 7 ELSE DaysInMonth(cal.month, cal.year)
    /\ lastOp' = "cal_j"
    /\ UNCHANGED <<pc, file, cin, dailyGoals, records, firstRun,
                   g_foodTemplates, currentState, currentDate,
                   calendarOriginalDate, selectedIndex, foodScrollOffset,
                   capturesLeft>>
    /\ UNCHANGED <<envVars, formVars, pickVars, createVars>>

\* key 'j'
Calendar_j ==
    /\ InCalendar
    /\ selectedCalendarDay' =
          IF selectedCalendarDay + 7 <= DaysInMonth(cal.month, cal.year)
          THEN selectedCalendarDay + 7 ELSE selectedCalendarDay
    /\ lastOp' = "cal_j"
    /\ UNCHANGED <<pc, file, cin, dailyGoals, records, firstRun,
                   g_foodTemplates, currentState, currentDate,
                   calendarOriginalDate, selectedIndex, foodScrollOffset,
                   capturesLeft>>
    /\ UNCHANGED <<envVars, formVars, pickVars, createVars>>

\* key 'k'
Calendar_k ==
    /\ InCalendar
    /\ selectedCalendarDay' =
          IF selectedCalendarDay - 7 >= 1
          THEN selectedCalendarDay - 7 ELSE selectedCalendarDay
    /\ lastOp' = "cal_k"
    /\ UNCHANGED <<pc, file, cin, dailyGoals, records, firstRun,
                   g_foodTemplates, currentState, currentDate,
                   calendarOriginalDate, selectedIndex, foodScrollOffset,
                   capturesLeft>>
    /\ UNCHANGED <<envVars, formVars, pickVars, createVars>>

\* faulty variant of Calendar_q: the date of the displayed month is kept
Calendar_q_Keep ==
    /\ InCalendar
    /\ currentDate' = currentDate
    /\ RenderMainMenu(records, currentDate, foodScrollOffset)
    /\ NoCalendar
    /\ lastOp' = "cal_cancel"
    /\ UNCHANGED <<file, cin, dailyGoals, firstRun, g_foodTemplates,
                   selectedIndex, capturesLeft>>
    /\ UNCHANGED <<envVars, formVars, pickVars, createVars>>

\* key 'q': the date held on entry is restored
Calendar_q ==
    /\ InCalendar
    /\ currentDate' = calendarOriginalDate
    /\ RenderMainMenu(records, calendarOriginalDate, foodScrollOffset)
    /\ NoCalendar
    /\ lastOp' = "cal_cancel"
    /\ UNCHANGED <<file, cin, dailyGoals, firstRun, g_foodTemplates,
                   selectedIndex, capturesLeft>>
    /\ UNCHANGED <<envVars, formVars, pickVars, createVars>>

\* faulty variant of Calendar_Enter: the day of the held date is kept
Calendar_Enter_HeldDay ==
    /\ InCalendar
    /\ \E d \in {FormatDate(cal.day, cal.month, cal.year)} :
           /\ currentDate' = d
           /\ RenderMainMenu(records, d, foodScrollOffset)
    /\ NoCalendar
    /\ lastOp' = "cal_confirm"
    /\ UNCHANGED <<file, cin, dailyGoals, firstRun, g_foodTemplates,
                   selectedIndex, capturesLeft>>
    /\ UNCHANGED <<envVars, formVars, pickVars, createVars>>

\* key Enter: the selected day of the displayed month becomes the date
Calendar_Enter ==
    /\ InCalendar
    /\ \E d \in {FormatDate(selectedCalendarDay, cal.month, cal.year)} :
           /\ DateAllowed(d)
           /\ currentDate' = d
           /\ RenderMainMenu(records, d, foodScrollOffset)
    /\ NoCalendar
    /\ lastOp' = "cal_confirm"
    /\ UNCHANGED <<file, cin, dailyGoals, firstRun, g_foodTemplates,
                   selectedIndex, capturesLeft>>
    /\ UNCHANGED <<envVars, formVars, pickVars, createVars>>

(***************************************************************************)
(* The program                                                             *)
(***************************************************************************)
Next ==
    \/ Main_FirstRun \/ Main_Load \/ Main_LoadThrows
    \/ ProcessInput_j \/ ProcessInput_k
    \/ ProcessInput_x \/ ProcessInput_x_menu
    \/ ProcessInput_h \/ ProcessInput_l \/ ProcessInput_q
    \/ ProcessInput_Enter_templates \/ ProcessInput_Enter_custom
    \/ ProcessInput_Enter_calendar \/ ProcessInput_Enter_reset
    \/ ProcessInput_Enter_food
    \/ FoodForm_j \/ FoodForm_k \/ FoodForm_Enter_field
    \/ AddCustomFood_Enter_add \/ EditFood_Enter_update \/ FoodForm_q
    \/ GoalsForm_j \/ GoalsForm_k \/ GoalsForm_Enter_field
    \/ GoalsForm_Enter_commit \/ GoalsForm_q
    \/ Picker_search_begin \/ Picker_search_end \/ Picker_search_backspace
    \/ Picker_search_type \/ Picker_j \/ Picker_k \/ Picker_Enter_create
    \/ Picker_Enter_template \/ Picker_Enter_none \/ Picker_x \/ Picker_q
    \/ Create_j \/ Create_k \/ Create_Enter_field \/ Create_Enter_add
    \/ Create_q
    \/ Calendar_b \/ Calendar_w \/ Calendar_h \/ Calendar_l \/ Calendar_j
    \/ Calendar_k \/ Calendar_q \/ Calendar_Enter

(***************************************************************************)
(* What is explored                                                        *)
(***************************************************************************)
MaxFoods == 2

MaxTemplates == 2

MaxRecords == 2

MaxCaptures == 2

MaxSearch == 1

\* more entries than the ten rows either list shows
ManyFoods == 11

ManyTemplates == 11

\* the data file is absent
NoFile == [exists |-> FALSE, lines |-> <<>>]

FileOf(lines) == [exists |-> TRUE, lines |-> lines]

\* a data file a run saved: other goals than the default ones, a food on
\* 31/12/2024
SavedFile ==
    FileOf(<<<<"D", "A", "I", "L", "Y", "_", "G", "O", "A", "L", "S", ":", " ", "1", "8", "0", "0", ",", "2", "0", "0", ",", "1", "0", "0", ",", "6", "0">>,
             <<"D", "A", "T", "E", ":", " ", "3", "1", "/", "1", "2", "/", "2", "0", "2", "4">>,
             <<"F", "O", "O", "D", ":", " ", "P", "e", "a", "r", "|", "5", "7", "|", "1", "5", "|", "0", "|", "0", "|", "1", "0", "0">>>>)

\* the same file with a calories token that is no number
MalformedFile ==
    FileOf(<<<<"D", "A", "I", "L", "Y", "_", "G", "O", "A", "L", "S", ":", " ", "1", "8", "0", "0", ",", "2", "0", "0", ",", "1", "0", "0", ",", "6", "0">>,
             <<"D", "A", "T", "E", ":", " ", "3", "1", "/", "1", "2", "/", "2", "0", "2", "4">>,
             <<"F", "O", "O", "D", ":", " ", "A", "p", "p", "l", "e", "|", "a", "b", "c", "|", "1", "0", "|", "0", "|", "0", "|", "1", "0", "0">>,
             <<"F", "O", "O", "D", ":", " ", "P", "e", "a", "r", "|", "5", "7", "|", "1", "5", "|", "0", "|", "0", "|", "1", "0", "0">>>>)

\* the saved file followed by a DATE line of 01/01/2025, the DATE line of
\* 31/12/2024 once more, without the blank, and a second food
RepeatedDateFile ==
    FileOf(SavedFile.lines
           \o <<kDateOut \o FormatDate(1, 1, 2025),
                kDate \o FormatDate(31, 12, 2024),
                SavedFile.lines[3]>>)

\* the saved file with two FOOD lines put before its first line: the one
\* of the saved file and the one whose calories token is no number
OrphanFoodFile ==
    FileOf(<<SavedFile.lines[3], MalformedFile.lines[3]>> \o SavedFile.lines)

\* a data file with ManyFoods equal foods on 31/12/2024
ManyFoodsFile ==
    FileOf(<<SavedFile.lines[1], SavedFile.lines[2]>>
           \o [i \in 1..ManyFoods |-> SavedFile.lines[3]])

\* a data file with ManyFoods foods on 31/12/2024, the first of 1 gram, the
\* last of ManyFoods grams, the ones between of 100 grams
MarkedFoodsFile ==
    FileOf(<<SavedFile.lines[1], SavedFile.lines[2]>>
           \o [i \in 1..ManyFoods |->
                  FoodLine(Food(<<"P", "e", "a", "r">>, 57, 15, 0, 0,
                                IF i = 1 THEN 1
                                ELSE IF i = ManyFoods THEN ManyFoods
                                ELSE 100))])

Today == <<"3", "1", "/", "1", "2", "/", "2", "0", "2", "4">>

LineEmpty == <<>>

LineFive == <<"5">>

LineX == <<"x">>

LineMinusOne == <<"-", "1">>

LineMinusFive == <<"-", "5">>

LineUpperLower == <<"X", "x">>

\* a text one character longer than the name column
LineLong == [i \in 1..(maxNameLen + 1) |-> "a"]

\* the narrowest exploration: no data file, no typed text, no sub-screen
\* opened from the menu, one date; each profile below widens it in one
\* direction
Narrow ==
    [files |-> {NoFile},
     writables |-> {TRUE},
     todays |-> {Today},
     screens |-> {},
     lines |-> {LineFive},
     gramsLines |-> {LineFive},
     searchKeys |-> {"x"},
     indeterminate |-> {-1, 0},
     maxFoods |-> 1,
     maxTemplates |-> 1,
     maxRecords |-> 1,
     maxSearch |-> MaxSearch,
     captures |-> 0,
     dateLo |-> DayNumber(31, 12, 2024),
     dateHi |-> DayNumber(31, 12, 2024),
     monthLo |-> 2024 * 12 + 12,
     monthHi |-> 2024 * 12 + 12]

\* start-up: every data file, a destination that can or cannot be written,
\* and the first-run goals form with typed text
StartProfile ==
    [Narrow EXCEPT !.files = {NoFile, SavedFile, MalformedFile,
                              OrphanFoodFile},
                   !.writables = {TRUE, FALSE},
                   !.lines = {LineEmpty, LineFive, LineX},
                   !.captures = MaxCaptures]

\* dates: day shifts and the calendar over two days and two months
DateProfile ==
    [Narrow EXCEPT !.files = {SavedFile, RepeatedDateFile},
                   !.screens = {"calendar"},
                   !.maxRecords = MaxRecords,
                   !.dateHi = DayNumber(1, 1, 2025),
                   !.monthHi = 2025 * 12 + 1]

\* the fields of the edit form and of the reset-goals form, typed into
\* MaxCaptures times
EditProfile ==
    [Narrow EXCEPT !.files = {SavedFile},
                   !.screens = {"edit", "reset"},
                   !.lines = {LineEmpty, LineFive, LineX},
                   !.captures = MaxCaptures]

\* foods added, edited and deleted: up to MaxFoods foods on the date, one
\* line typed
FormProfile ==
    [Narrow EXCEPT !.files = {SavedFile},
                   !.screens = {"custom", "edit", "reset"},
                   !.maxFoods = MaxFoods,
                   !.captures = 1]

\* templates: the picker and its create form, one line typed
PickerProfile ==
    [Narrow EXCEPT !.screens = {"templates"},
                   !.lines = {LineFive, LineX},
                   !.maxTemplates = MaxTemplates,
                   !.captures = 1]

\* the grams prompt: one template, instantiated up to MaxFoods times
GramsProfile ==
    [Narrow EXCEPT !.screens = {"templates"},
                   !.gramsLines = {LineFive, LineX},
                   !.maxFoods = MaxFoods]

\* a food list longer than the main view: ManyFoods foods loaded, one more
\* added, any of them deleted
ScrollProfile ==
    [Narrow EXCEPT !.files = {ManyFoodsFile},
                   !.screens = {"custom"},
                   !.maxFoods = ManyFoods + 1]

\* a template list longer than the picker: up to ManyTemplates templates
\* created without typed text
ManyTemplatesProfile ==
    [Narrow EXCEPT !.screens = {"templates"},
                   !.maxTemplates = ManyTemplates]

\* the calendar over the months from January 2023 to January 2025, entered
\* on 31/01/2024; 29/02/2024 or 01/03/2024 may be confirmed, the store
\* holding the loaded record, the one of 31/01/2024 and one more
CalendarProfile ==
    [Narrow EXCEPT !.files = {SavedFile},
                   !.todays = {FormatDate(31, 1, 2024)},
                   !.screens = {"calendar"},
                   !.maxRecords = 3,
                   !.dateLo = DayNumber(29, 2, 2024),
                   !.dateHi = DayNumber(1, 3, 2024),
                   !.monthLo = 2023 * 12 + 1,
                   !.monthHi = 2025 * 12 + 1]

\* one long text typed into the name field of a food form or of the
\* create-template form
LongNameProfile ==
    [Narrow EXCEPT !.files = {SavedFile},
                   !.screens = {"templates", "custom", "edit"},
                   !.lines = {LineLong},
                   !.maxFoods = MaxFoods,
                   !.captures = 1]

\* a food list longer than the main view whose ends can be told from the
\* rest: any entry opened in the edit form, any of them deleted
EditScrollProfile ==
    [Narrow EXCEPT !.files = {MarkedFoodsFile},
                   !.screens = {"edit"},
                   !.maxFoods = ManyFoods]

\* the custom-food form on either of two days: a food may be added on
\* 01/01/2025, the record of 31/12/2024 being full
OtherDayProfile ==
    [Narrow EXCEPT !.files = {SavedFile},
                   !.screens = {"custom"},
                   !.maxRecords = MaxRecords,
                   !.dateHi = DayNumber(1, 1, 2025)]

\* negative numbers typed into the custom-food form
NegativeProfile ==
    [Narrow EXCEPT !.files = {SavedFile},
                   !.screens = {"custom"},
                   !.lines = {LineMinusOne, LineMinusFive},
                   !.maxFoods = MaxFoods,
                   !.captures = 1]

\* the search of the picker: templates named x and Xx, search terms of up
\* to two of the letters x and X
SearchProfile ==
    [Narrow EXCEPT !.screens = {"templates"},
                   !.lines = {LineX, LineUpperLower},
                   !.searchKeys = {"x", "X"},
                   !.maxTemplates = 2,
                   !.maxSearch = 2,
                   !.captures = 2]

\* the day shifts between one day and the day after it
ShiftProfile(d, m, y) ==
    [Narrow EXCEPT !.todays = {FormatDate(d, m, y)},
                   !.maxRecords = MaxRecords,
                   !.dateLo = DayNumber(d, m, y),
                   !.dateHi = DayNumber(d, m, y) + 1]

\* the ends of February in a common year, in a leap year, in the leap year
\* 2000 and in the common year 2100, and the end of a month of 30 days
ShiftProfiles ==
    {ShiftProfile(28, 2, 2025), ShiftProfile(28, 2, 2024),
     ShiftProfile(29, 2, 2024), ShiftProfile(28, 2, 2000),
     ShiftProfile(28, 2, 2100), ShiftProfile(30, 4, 2024)}

\* a template instantiated with a number or with a letter typed at the grams
\* prompt, and then one line typed into a field of the reset-goals form
StreamProfile ==
    [Narrow EXCEPT !.files = {SavedFile},
                   !.screens = {"templates", "reset"},
                   !.gramsLines = {LineFive, LineX},
                   !.maxFoods = 2,
                   !.captures = 1]

\* two foods on the active date and a record of another date, one line typed
\* into a field of the edit form
EditRecordsProfile ==
    [Narrow EXCEPT !.files = {RepeatedDateFile},
                   !.screens = {"edit"},
                   !.maxFoods = 2,
                   !.maxRecords = 2,
                   !.captures = 1]

Profiles ==
    {StartProfile, DateProfile, EditProfile, FormProfile, PickerProfile,
     GramsProfile, ScrollProfile, ManyTemplatesProfile, CalendarProfile,
     LongNameProfile, EditScrollProfile, OtherDayProfile, NegativeProfile,
     SearchProfile, StreamProfile, EditRecordsProfile}
        \cup ShiftProfiles

Init == \E profile \in Profiles : InitWith(profile)

Spec == Init /\ [][Next]_vars

(***************************************************************************)
(* Persistence                                                             *)
(***************************************************************************)
\* loadData on a DataManager that was just constructed
FreshLoad(lines) == LoadData(DefaultGoals, <<>>, lines)

\* C1: whenever the main menu waits for a key, saving the store and loading
\* the saved lines into a freshly constructed store gives the same goals, the
\* same dates in the same order, and for every date the same foods
C1_RoundTrip ==
    InMainMenu =>
        \E st \in {FreshLoad(SaveLines(dailyGoals, records))} :
            /\ ~st.thrown
            /\ st.goals = dailyGoals
            /\ st.records = records

\* C2: loading the file whose FOOD line has the token abc for the calories
\* does not abort: the main menu is reached, the record of 31/12/2024 holds
\* that food with calories 0 and its other numbers as written, and the food
\* of the following line after it
C2_MalformedLoadTolerated ==
    (file = MalformedFile /\ lastOp = "load") =>
        /\ pc = "run"
        /\ RecordIndex(records, Today) # 0
        /\ \E foods \in {FoodsOf(records, Today)} :
               /\ Len(foods) = 2
               /\ foods[1].calories = 0
               /\ foods[1].carbs = 10
               /\ foods[1].grams = 100
               /\ foods[2].calories = 57
               /\ foods[2].grams = 100

(***************************************************************************)
(* Selection and scrolling                                                 *)
(***************************************************************************)
\* C5: whenever the main menu waits for a key, the focused index is at least
\* 0 and less than 4 + the number of foods of the active date
C5_MainSelection ==
    InMainMenu =>
        /\ RecordIndex(records, currentDate) # 0
        /\ 0 <= selectedIndex
        /\ selectedIndex < 4 + Len(FoodsOf(records, currentDate))

\* the focus went back from the first index to the last food entry
C5_Witness ==
    /\ InMainMenu
    /\ lastOp = "main_k"
    /\ foodCount >= 1
    /\ selectedIndex = 3 + foodCount

\* C6: in every frame of the main menu the food scroll offset is at least 0
\* and at most max(0, foodCount - 10)
C6_MainScrollClamp ==
    InMainMenu =>
        /\ 0 <= foodScrollOffset
        /\ foodScrollOffset
              <= (IF Len(FoodsOf(records, currentDate)) - 10 > 0
                  THEN Len(FoodsOf(records, currentDate)) - 10 ELSE 0)

\* the last of more than ten foods was deleted and the frame shows the list
\* scrolled to its end
C6_Witness ==
    /\ InMainMenu
    /\ lastOp = "delete"
    /\ foodCount = ManyFoods
    /\ selectedIndex = 3 + foodCount
    /\ foodScrollOffset = foodCount - 10

\* C7: whenever the template picker waits for a key, its focused index is at
\* least 0 and less than 2 + the number of templates matching the search term
C7_PickerSelection ==
    InPicker =>
        /\ 0 <= localSelection
        /\ localSelection < 2 + Len(Matches(g_foodTemplates, searchTerm))

\* C8: whenever the template picker waits for a key, its scroll offset is at
\* least 0 and at most max(0, matchCount - 10)
C8_PickerScroll ==
    InPicker =>
        /\ 0 <= templateScrollOffset
        /\ templateScrollOffset
              <= (IF Len(Matches(g_foodTemplates, searchTerm)) - 10 > 0
                  THEN Len(Matches(g_foodTemplates, searchTerm)) - 10 ELSE 0)

(***************************************************************************)
(* Saving after a change                                                   *)
(***************************************************************************)
\* the values of lastOp after the actions that change the store
MutatingOps ==
    {"add_custom", "add_template", "edit_commit", "delete", "start_commit",
     "reset_commit"}

\* C3, as stated: once an action that changes the store is complete and the
\* next key is awaited, a writable data file holds the serialization of the
\* goals and of all records in memory
C3_SavedIsCurrentStore ==
    (writable /\ lastOp \in MutatingOps) =>
        file = FileOf(SaveLines(dailyGoals, records))

\* C3, amended: the file holds the serialization of the goals and of the
\* records the action left; the frame drawn afterwards may have created the
\* foodless record of the active date in memory only, which is the case after
\* the first-run goals form
C3_SavedIsStoreOfAction ==
    (writable /\ lastOp \in MutatingOps) =>
        \/ file = FileOf(SaveLines(dailyGoals, records))
        \/ /\ lastOp = "start_commit"
           /\ records = <<DailyRecord(currentDate)>>
           /\ file = FileOf(SaveLines(dailyGoals, <<>>))

\* the first-run goals were typed and committed; the file has the goals and
\* no record, the memory has the record of the first frame
C3_Witness ==
    /\ writable
    /\ lastOp = "start_commit"
    /\ dailyGoals.calories = 5
    /\ records = <<DailyRecord(currentDate)>>
    /\ file = FileOf(SaveLines(dailyGoals, <<>>))

(***************************************************************************)
(* Cancelling a form                                                       *)
(***************************************************************************)
\* the foods the store holds for a date, none when it has no record of it
FoodsOn(recs, date) ==
    IF RecordIndex(recs, date) = 0 THEN <<>> ELSE FoodsOf(recs, date)

\* the dates of the records
DatesOf(recs) == {recs[i].date : i \in 1..Len(recs)}

InForm == InFoodForm \/ InGoalsForm \/ InCreate

\* the values of lastOp after a form's commit
CommitOps ==
    {"add_custom", "edit_commit", "start_commit", "reset_commit",
     "create_commit"}

\* C4: every step taken in a form other than its commit (a field selection,
\* a field edit, the cancel) leaves the goals, the foods of every date and
\* the templates as they are; so a cancel after any such steps leaves them as
\* they were when the form opened
C4_CancelKeepsTarget ==
    [][(InForm /\ lastOp' \notin CommitOps) =>
          /\ dailyGoals' = dailyGoals
          /\ g_foodTemplates' = g_foodTemplates
          /\ \A d \in DatesOf(records) \cup DatesOf(records') :
                 FoodsOn(records', d) = FoodsOn(records, d)]_vars

\* the first-run goals form was cancelled after text was typed into its
\* fields (no other form reads text in this profile)
C4_Witness ==
    /\ lastOp = "form_cancel"
    /\ firstRun
    /\ lim = StartProfile
    /\ capturesLeft = 0
    /\ dailyGoals = DefaultGoals

(***************************************************************************)
(* Deleting a food                                                         *)
(***************************************************************************)
\* C9: a delete with the last food entry focused leaves the focus on the new
\* last entry, on index 3 when no food is left, and inside the list
C9_DeleteLastKeepsFocusInside ==
    [][(lastOp' = "delete" /\ selectedIndex = 3 + foodCount) =>
          \E n \in {Len(FoodsOn(records', currentDate'))} :
              /\ n = foodCount - 1
              /\ selectedIndex' = 3 + n
              /\ 0 <= selectedIndex' /\ selectedIndex' < 4 + n]_vars

\* the only food of the date was deleted: the focus is on index 3
C9_Witness ==
    /\ InMainMenu
    /\ lastOp = "delete"
    /\ foodCount = 0
    /\ selectedIndex = 3

\* C10: a delete with food entry j focused removes that entry and keeps the
\* others in their order, leaves the other records and the goals alone, and
\* saves; a delete with a menu item focused changes nothing
C10_DeleteRemovesFocused ==
    [][/\ lastOp' = "delete" =>
            \E j \in {selectedIndex - 4}, pos \in {RecordIndex(records, currentDate)} :
                /\ 0 <= j /\ j < foodCount
                /\ currentDate' = currentDate
                /\ Len(records') = Len(records)
                /\ \A k \in 1..Len(records) :
                       /\ records'[k].date = records[k].date
                       /\ k # pos => records'[k] = records[k]
                /\ Len(records'[pos].foods) = foodCount - 1
                /\ \A i \in 1..(foodCount - 1) :
                       records'[pos].foods[i] =
                           records[pos].foods[IF i <= j THEN i ELSE i + 1]
                /\ dailyGoals' = dailyGoals
                /\ writable => file' = FileOf(SaveLines(dailyGoals', records'))
       /\ lastOp' = "delete_none" =>
            /\ selectedIndex < 4
            /\ records' = records
            /\ dailyGoals' = dailyGoals
            /\ file' = file
            /\ selectedIndex' = selectedIndex]_vars

\* the first of two different foods was deleted and the other one is left
C10_Witness ==
    /\ InMainMenu
    /\ lastOp = "delete"
    /\ lim = FormProfile
    /\ selectedIndex = 4
    /\ foodCount = 1
    /\ FoodsOf(records, currentDate)[1].name = kEmptyName
    /\ file = FileOf(SaveLines(dailyGoals, records))

(***************************************************************************)
(* Template scaling                                                        *)
(***************************************************************************)
\* the line typed is an integer that fits an int, and nothing else
EnteredInt(typed) ==
    \E r \in {ScanInt(typed)} : r.ok /\ r.rest = <<>>

\* floor(value * grams / 100)
FloorScaled(value, grams) == (value * grams) \div 100

\* C11: selecting a template and entering the integer g at the grams prompt
\* appends to the record of the current date the food with the template's
\* name, grams = g and every nutrient equal to floor(value * g / 100)
C11_TemplateScaling ==
    [][\A typed \in lim.gramsLines :
          (Picker_Enter_template_grams(typed) /\ EnteredInt(typed)) =>
             \E g \in {ScanInt(typed).value},
                t \in {matches[localSelection - 2 + templateScrollOffset + 1]} :
                FoodsOn(records', currentDate) =
                    Append(FoodsOn(records, currentDate),
                           Food(t.name, FloorScaled(t.calories, g),
                                FloorScaled(t.carbs, g),
                                FloorScaled(t.protein, g),
                                FloorScaled(t.fat, g), g))]_vars

(***************************************************************************)
(* Calendar                                                                *)
(***************************************************************************)
CursorOps == {"cal_h", "cal_l", "cal_j", "cal_k"}

\* C12: the date active when the calendar is entered is held through every
\* cursor move and month paging, and a cancel returns to the main view with
\* exactly that date active
C12_CalendarCancel ==
    [][/\ (InMainMenu /\ currentState' = "STATE_CALENDAR") =>
              calendarOriginalDate' = currentDate
       /\ (InCalendar /\ currentState' = "STATE_CALENDAR") =>
              calendarOriginalDate' = calendarOriginalDate
       /\ (InCalendar /\ lastOp' = "cal_cancel") =>
              /\ pc' = "run" /\ currentState' = "STATE_MAIN_MENU"
              /\ currentDate' = calendarOriginalDate]_vars

\* the calendar was entered on 29/02/2024, a day confirmed earlier, and
\* cancelled
C12_Witness ==
    /\ InMainMenu
    /\ lastOp = "cal_cancel"
    /\ currentDate = FormatDate(29, 2, 2024)

\* C13: entering the calendar and moving the cursor leave the displayed
\* month alone, and a confirm makes the selected day of the displayed month
\* and year the active date and returns to the main view
C13_CalendarConfirm ==
    [][/\ (InMainMenu /\ currentState' = "STATE_CALENDAR") =>
              currentDate' = currentDate
       /\ (InCalendar /\ lastOp' \in CursorOps) => currentDate' = currentDate
       /\ (InCalendar /\ lastOp' = "cal_confirm") =>
              /\ pc' = "run" /\ currentState' = "STATE_MAIN_MENU"
              /\ \E c \in {ParseDate(currentDate)} :
                    currentDate' =
                        FormatDate(selectedCalendarDay, c.month, c.year)]_vars

\* entered on 31/01/2024, paged to February, day 29 confirmed
C13_Witness ==
    /\ InMainMenu
    /\ lastOp = "cal_confirm"
    /\ currentDate = FormatDate(29, 2, 2024)
    /\ RecordIndex(records, FormatDate(31, 1, 2024)) # 0

\* the Gregorian length of month m of year y
GregorianLength(m, y) ==
    IF m = 2 /\ ((y % 4 = 0 /\ y % 100 # 0) \/ y % 400 = 0) THEN 29
    ELSE <<31, 28, 31, 30, 31, 30, 31, 31, 30, 31, 30, 31>>[m]

\* the row of the calendar grid day d is drawn in, the first of the month
\* falling on weekday w
GridRow(w, d) == (w + d - 1) \div 7

GridCol(w, d) == (w + d - 1) % 7

\* C14: left is a no-op in column 0 or on day 1, right is a no-op in column 6
\* or on the last day of the month; otherwise they move the cursor by one
\* day, inside the same row of the grid
C14_LeftRightStayInRow ==
    [][(InCalendar /\ lastOp' \in {"cal_h", "cal_l"}) =>
          \A w \in {WeekDay(1, cal.month, cal.year)}, d \in {selectedCalendarDay} :
             /\ lastOp' = "cal_h" =>
                   IF GridCol(w, d) = 0 \/ d = 1
                   THEN selectedCalendarDay' = d
                   ELSE /\ selectedCalendarDay' = d - 1
                        /\ GridRow(w, d - 1) = GridRow(w, d)
             /\ lastOp' = "cal_l" =>
                   IF GridCol(w, d) = 6 \/ d = GregorianLength(cal.month, cal.year)
                   THEN selectedCalendarDay' = d
                   ELSE /\ selectedCalendarDay' = d + 1
                        /\ GridRow(w, d + 1) = GridRow(w, d)]_vars

\* 31/03/2024 is a Sunday, the only day of the last row of the grid: left
\* was pressed on it and the cursor stayed
C14_Witness ==
    /\ InCalendar
    /\ lastOp = "cal_h"
    /\ cal.month = 3 /\ cal.year = 2024
    /\ selectedCalendarDay = 31

\* C15: down and up move the cursor by seven days when that day is in the
\* month, and otherwise leave it where it is
C15_UpDownBySeven ==
    [][(InCalendar /\ lastOp' \in {"cal_j", "cal_k"}) =>
          \A d \in {selectedCalendarDay} :
             /\ lastOp' = "cal_j" =>
                   selectedCalendarDay' =
                       IF d + 7 <= GregorianLength(cal.month, cal.year)
                       THEN d + 7 ELSE d
             /\ lastOp' = "cal_k" =>
                   selectedCalendarDay' = IF d - 7 >= 1 THEN d - 7 ELSE d]_vars

\* down was pressed in February 2023, which has 28 days, and the cursor is
\* on day 23
C15_Witness ==
    /\ InCalendar
    /\ lastOp = "cal_j"
    /\ cal.month = 2 /\ cal.year = 2023
    /\ selectedCalendarDay = 23

\* C16: a month paging moves the displayed month by one with the year
\* carried at the 12/1 boundary, puts the cursor on day 1 and keeps the day
\* of month of the held date; the opposite paging leads back
C16_MonthPaging ==
    [][(InCalendar /\ lastOp' \in {"cal_b", "cal_w"}) =>
          \E c \in {ParseDate(currentDate)}, n \in {ParseDate(currentDate')} :
             /\ n.day = c.day
             /\ selectedCalendarDay' = 1
             /\ calendarOriginalDate' = calendarOriginalDate
             /\ lastOp' = "cal_w" =>
                   /\ n.month = (IF c.month = 12 THEN 1 ELSE c.month + 1)
                   /\ n.year = (IF c.month = 12 THEN c.year + 1 ELSE c.year)
                   /\ PagedMonth(n, -1) = [month |-> c.month, year |-> c.year]
             /\ lastOp' = "cal_b" =>
                   /\ n.month = (IF c.month = 1 THEN 12 ELSE c.month - 1)
                   /\ n.year = (IF c.month = 1 THEN c.year - 1 ELSE c.year)
                   /\ PagedMonth(n, 1) = [month |-> c.month, year |-> c.year]]_vars

\* paged back from January 2024 to December 2023, day 31 held
C16_Witness ==
    /\ InCalendar
    /\ lastOp = "cal_b"
    /\ currentDate = FormatDate(31, 12, 2023)
    /\ selectedCalendarDay = 1

\* C17: in every month displayed, daysInMonth is the Gregorian length of the
\* month: 29 for February 2024, 28 for February 2023, 31 for December
C17_DaysInMonth ==
    InCalendar =>
       \E m \in {cal.month}, y \in {cal.year} :
          /\ DaysInMonth(m, y) = GregorianLength(m, y)
          /\ (m = 2 /\ y = 2024) => DaysInMonth(m, y) = 29
          /\ (m = 2 /\ y = 2023) => DaysInMonth(m, y) = 28
          /\ m = 12 => DaysInMonth(m, y) = 31

\* the cursor was moved down to day 29 of February 2024
C17_Witness ==
    /\ InCalendar
    /\ lastOp = "cal_j"
    /\ cal.month = 2 /\ cal.year = 2024
    /\ selectedCalendarDay = 29

(***************************************************************************)
(* Field entry                                                             *)
(***************************************************************************)
\* the line typed is no integer: std::stoi throws on it
NotInt(typed) == ~Stoi(typed).ok

\* C18: in each of the five forms, a line typed into a numeric field that
\* does not parse as an integer leaves the values of the fields as they
\* were, and the form goes on
C18_ParseFailureKeepsValue ==
    [][\A typed \in lim.lines :
          NotInt(typed) =>
             /\ (FoodForm_Enter_field_line(typed) /\ localSelection >= 1) =>
                    fieldValues' = fieldValues /\ pc' = pc
             /\ GoalsForm_Enter_field_line(typed) =>
                    fieldValues' = fieldValues /\ pc' = pc
             /\ (Create_Enter_field_line(typed) /\ editSelection >= 1) =>
                    fieldValues' = fieldValues /\ pc' = pc]_vars

\* the first maxNameLen characters of a text
Truncated(text) ==
    IF Len(text) > maxNameLen THEN SubSeq(text, 1, maxNameLen) ELSE text

\* C19: a text typed into the name field of a food form or of the
\* create-template form is stored cut to its first 21 characters
C19_TextTruncated ==
    [][\A typed \in lim.lines :
          typed # <<>> =>
             /\ (FoodForm_Enter_field_line(typed) /\ localSelection = 0) =>
                    foodName' = Truncated(typed)
             /\ (Create_Enter_field_line(typed) /\ editSelection = 0) =>
                    tplName' = Truncated(typed)]_vars

(***************************************************************************)
(* Record store                                                            *)
(***************************************************************************)
\* C20: no two records of the store have the same date, and getRecord on
\* the date of a record finds that record and adds none; a file that
\* repeats a DATE line loads both groups of foods into one record
C20_RecordUniqueness ==
    /\ \A i, j \in 1..Len(records) :
          i # j => records[i].date # records[j].date
    /\ \A i \in 1..Len(records) :
          /\ GetRecord(records, records[i].date) = records
          /\ GetRecordPos(records, records[i].date) = i
    /\ (lastOp = "load" /\ file = RepeatedDateFile) =>
          /\ Len(records) = 2
          /\ Len(FoodsOn(records, FormatDate(31, 12, 2024))) = 2
          /\ FoodsOn(records, FormatDate(1, 1, 2025)) = <<>>

\* the file that repeats the DATE line of 31/12/2024 was loaded and the
\* view moved to 01/01/2025 and back
C20_Witness ==
    /\ InMainMenu
    /\ file = RepeatedDateFile
    /\ lastOp = "main_h"
    /\ currentDate = FormatDate(31, 12, 2024)
    /\ Len(records) = 2
    /\ Len(FoodsOn(records, currentDate)) = 2

(***************************************************************************)
(* Start of the program                                                    *)
(***************************************************************************)
\* C21: once loadData has run, if the data file was absent then firstRun is
\* set, the goals are the default 2000, 250, 150, 70, the store has no
\* record and the goals form of the first run is open; if the data file
\* was there then loadData returned true: firstRun is not set and the main
\* menu waits for a key
C21_LoadOutcome ==
    lastOp = "load" =>
        IF ~file.exists
        THEN /\ firstRun
             /\ dailyGoals = DefaultGoals
             /\ records = <<>>
             /\ pc = "handleStartGoals"
        ELSE /\ ~firstRun
             /\ pc = "run"

\* the input events of the main menu
MainOps ==
    {"main_j", "main_k", "main_h", "main_l", "delete", "delete_none", "quit",
     "open_templates", "open_custom", "open_calendar", "open_reset",
     "open_edit"}

RECURSIVE Iter(_, _, _)
Iter(f, k, x) == IF k = 0 THEN x ELSE Iter(f, k - 1, f[x])

\* one 'j' / one 'k' of the main menu over n selectable indices
MainAdvance(n) == [i \in 0..(n - 1) |-> Advance(i, n)]

MainRetreat(n) == [i \in 0..(n - 1) |-> Retreat(i, n)]

\* one 'j' / one 'k' of a form with n selectable indices
FormAdvanceOf(n) == [i \in 0..(n - 1) |-> FormAdvance(i, n - 1)]

FormRetreatOf(n) == [i \in 0..(n - 1) |-> FormRetreat(i, n - 1)]

\* a key moved the focus from the index old to the index new of n indices by
\* step (1: 'j', -1: 'k'), fwd being the function of that key and back the
\* function of the other one: new is old + step modulo n, the other key
\* leads back from new to old, and n - 1 more presses of the same key lead
\* from new to old
WrappedMove(old, new, n, step, fwd, back) ==
    /\ old \in 0..(n - 1)
    /\ new = (old + step) % n
    /\ new = fwd[old]
    /\ back[new] = old
    /\ Iter(fwd, n - 1, new) = old

\* the number of selectable indices of the form that is open
FormSize ==
    IF InFoodForm THEN 7 ELSE IF InGoalsForm THEN 5 ELSE 6

\* the focused index of the form that is open
FormFocus == IF InCreate THEN editSelection ELSE localSelection

\* C23: in the main menu and in each of the five forms, 'j' moves the focus
\* from the last index to 0 and otherwise up by one, 'k' moves it from 0 to
\* the last index and otherwise down by one, the number of indices stays the
\* same, the other key undoes the move, and as many presses of one key as
\* there are indices lead back to the index the focus started from
C23_WrapAround ==
    [][/\ (InMainMenu /\ lastOp' \in {"main_j", "main_k"}) =>
              /\ totalSelectable' = totalSelectable
              /\ IF lastOp' = "main_j"
                 THEN WrappedMove(selectedIndex, selectedIndex',
                                  totalSelectable, 1,
                                  MainAdvance(totalSelectable),
                                  MainRetreat(totalSelectable))
                 ELSE WrappedMove(selectedIndex, selectedIndex',
                                  totalSelectable, -1,
                                  MainRetreat(totalSelectable),
                                  MainAdvance(totalSelectable))
       /\ (InForm /\ lastOp' \in {"form_j", "form_k"}) =>
              /\ pc' = pc
              /\ IF lastOp' = "form_j"
                 THEN WrappedMove(FormFocus, FormFocus', FormSize, 1,
                                  FormAdvanceOf(FormSize),
                                  FormRetreatOf(FormSize))
                 ELSE WrappedMove(FormFocus, FormFocus', FormSize, -1,
                                  FormRetreatOf(FormSize),
                                  FormAdvanceOf(FormSize))]_vars

\* 'j' on the last entry of a main menu that lists foods brought the focus
\* to the first item
C23_Witness ==
    /\ InMainMenu
    /\ lastOp = "main_j"
    /\ foodCount >= 1
    /\ selectedIndex = 0

(***************************************************************************)
(* Enter in the main menu                                                  *)
(***************************************************************************)
\* the input events that answer Enter in the main menu
OpenOps ==
    {"open_templates", "open_custom", "open_calendar", "open_reset",
     "open_edit"}

\* C24: Enter in the main menu with item 0 focused opens the template
\* picker, with item 1 the custom-food form, with item 2 the calendar, the
\* active date being kept as the original date, with item 3 the reset-goals
\* form; with the entry of the j-th food of the active date focused it opens
\* the edit form on the name and the five numbers of that food, whatever the
\* scroll offset of the list
C24_ConfirmTransitions ==
    [][lastOp' \in OpenOps =>
          /\ InMainMenu
          /\ currentDate' = currentDate
          /\ records' = records
          /\ selectedIndex = 0 => pc' = "handleAddFromTemplate"
          /\ selectedIndex = 1 =>
                 pc' = "handleAddCustomFood" /\ localSelection' = 0
          /\ selectedIndex = 2 =>
                 /\ pc' = "run"
                 /\ currentState' = "STATE_CALENDAR"
                 /\ calendarOriginalDate' = currentDate
          /\ selectedIndex = 3 =>
                 pc' = "handleResetGoals" /\ localSelection' = 0
          /\ selectedIndex >= menuCount =>
                 /\ pc' = "handleEditFood"
                 /\ localSelection' = 0
                 /\ selectedIndex - menuCount < foodCount
                 /\ \E f \in {FoodsOf(records, currentDate)
                                  [selectedIndex - menuCount + 1]} :
                        /\ foodIndex' = selectedIndex - menuCount
                        /\ foodName' = f.name
                        /\ fieldValues' = <<f.calories, f.carbs, f.protein,
                                            f.fat, f.grams>>
          /\ selectedIndex < menuCount => currentState' # "STATE_MAIN_MENU"
                                          \/ pc' # "run"]_vars

\* the edit form is open on the last food of a list that is scrolled down
C24_Witness ==
    /\ pc = "handleEditFood"
    /\ lastOp = "open_edit"
    /\ file = MarkedFoodsFile
    /\ foodScrollOffset >= 1
    /\ foodIndex = ManyFoods - 1
    /\ fieldValues[5] = ManyFoods

(***************************************************************************)
(* Leaving a sub-screen                                                    *)
(***************************************************************************)
\* the handlers that run their own input loop; the create-template form
\* runs inside the template picker
SubScreens ==
    {"handleAddFromTemplate", "createTemplate", "handleAddCustomFood",
     "handleEditFood", "handleStartGoals", "handleResetGoals"}

\* the input events that end the handler: its commit and its cancel
LeaveOps(handler) ==
    CASE handler = "handleAddFromTemplate" -> {"add_template", "picker_cancel"}
      [] handler = "handleAddCustomFood" -> {"add_custom", "form_cancel"}
      [] handler = "handleEditFood" -> {"edit_commit", "form_cancel"}
      [] handler = "handleStartGoals" -> {"start_commit", "form_cancel"}
      [] handler = "handleResetGoals" -> {"reset_commit", "form_cancel"}
      [] OTHER -> {}

\* C25: while the template picker, the custom-food form, the edit form, the
\* start-goals form or the reset-goals form is open, a key either leaves it
\* open (the picker may open and close its create-template form), or it is
\* the commit or the cancel of that screen and the main menu waits for a
\* key next; the active date is the same after every key, so the main menu
\* comes back on the date the screen was opened on
C25_SubStatesReturn ==
    [][(pc \in SubScreens) =>
          /\ currentDate' = currentDate
          /\ \/ pc' = pc
             \/ pc = "handleAddFromTemplate" /\ pc' = "createTemplate"
             \/ pc = "createTemplate" /\ pc' = "handleAddFromTemplate"
             \/ /\ lastOp' \in LeaveOps(pc)
                /\ pc' = "run"
                /\ currentState' = "STATE_MAIN_MENU"]_vars

\* the custom-food form was opened on 01/01/2025 and left by 'q': the main
\* menu shows 01/01/2025
C25_Witness ==
    /\ InMainMenu
    /\ lastOp = "form_cancel"
    /\ currentDate = FormatDate(1, 1, 2025)
    /\ currentDate \notin lim.todays

(***************************************************************************)
(* Day shifts                                                              *)
(***************************************************************************)
\* t is a day of the Gregorian calendar
IsCalendarDay(t) ==
    /\ t.month \in 1..12
    /\ t.day \in 1..GregorianLength(t.month, t.year)

\* the date new is the calendar day step days after the date old, written
\* as DD/MM/YYYY, and the opposite shift leads back from it to old
ShiftedBy(old, new, step) ==
    \E a \in {ParseDate(old)} : \E b \in {ParseDate(new)} :
        /\ a.ok /\ b.ok
        /\ IsCalendarDay(a) /\ IsCalendarDay(b)
        /\ DayNumberOf(b) = DayNumberOf(a) + step
        /\ new = FormatTm(b)
        /\ ChangeDateByOffset(new, -step) = old

\* C26: in the main menu 'h' makes the day before the active date the
\* active date and 'l' the day after it, also when that day is in another
\* month or year or is the 29th of February, and the opposite key then
\* leads back to the date the shift started from
C26_DayShift ==
    [][/\ (InMainMenu /\ lastOp' = "main_h") =>
              /\ InMainMenu'
              /\ ShiftedBy(currentDate, currentDate', -1)
       /\ (InMainMenu /\ lastOp' = "main_l") =>
              /\ InMainMenu'
              /\ ShiftedBy(currentDate, currentDate', 1)]_vars

\* 'l' on 28/02/2100 led to 01/03/2100
C26_Witness ==
    /\ InMainMenu
    /\ lastOp = "main_l"
    /\ currentDate = FormatDate(1, 3, 2100)

(***************************************************************************)
(* The custom-food form                                                    *)
(***************************************************************************)
\* the five numbers of a food, in the order of the form's fields
NumbersOf(food) ==
    <<food.calories, food.carbs, food.protein, food.fat, food.grams>>

\* the store recs with the food appended to the record of the date, a record
\* being made for the date if there was none
WithFoodAdded(recs, date, food) ==
    LET r == GetRecord(recs, date)
    IN  [r EXCEPT ![RecordIndex(r, date)].foods = Append(@, food)]

\* C27: Enter on [Add] of the custom-food form appends one food at the end
\* of the record of the active date and changes no other food, no other
\* record, no goal and no template; the numbers of that food are 0 when the
\* form was just opened, and once the user has entered an integer in a
\* field, negative ones included, the number of that field is that integer
\* and the numbers of the other fields are as they were
C27_CustomFoodCommit ==
    [][/\ lastOp' = "add_custom" =>
              /\ pc = "handleAddCustomFood"
              /\ \E food \in {CustomFood(foodName, fieldValues)} :
                     records' = WithFoodAdded(records, currentDate, food)
              /\ dailyGoals' = dailyGoals
              /\ g_foodTemplates' = g_foodTemplates
              /\ currentDate' = currentDate
       /\ lastOp' = "open_custom" =>
              NumbersOf(CustomFood(foodName', fieldValues')) = <<0, 0, 0, 0, 0>>
       /\ \A typed \in lim.lines :
              (/\ pc = "handleAddCustomFood"
               /\ localSelection \in 1..5
               /\ EnteredInt(typed)
               /\ FoodForm_Enter_field_line(typed)) =>
                  \E before \in {NumbersOf(CustomFood(foodName, fieldValues))} :
                      NumbersOf(CustomFood(foodName', fieldValues')) =
                          [before EXCEPT ![localSelection] = Stoi(typed).value]]_vars

(***************************************************************************)
(* The search of the template picker                                       *)
(***************************************************************************)
\* the text p stands in the text s, character for character
IsSubstring(p, s) ==
    \E a \in 0..Len(s) :
        /\ a + Len(p) <= Len(s)
        /\ \A k \in 1..Len(p) : s[a + k] = p[k]

\* the positions in the template list of the templates whose name holds the
\* term
MatchingPositions(templates, term) ==
    {i \in 1..Len(templates) : IsSubstring(term, templates[i].name)}

\* C28: whenever the template picker waits for a key, the list it shows is
\* made of the templates whose name holds the search term as a substring,
\* upper and lower case told apart, each once and in the order of the
\* template list; with no search term it is the template list
C28_TemplateSearch ==
    InPicker =>
        \E found \in {MatchingPositions(g_foodTemplates, searchTerm)} :
            /\ Len(matches) = Cardinality(found)
            /\ \A i \in found :
                   matches[Cardinality({j \in found : j <= i})] =
                       g_foodTemplates[i]
            /\ searchTerm = <<>> => matches = g_foodTemplates

\* the templates Xx and x with the search term X: the picker lists Xx only
C28_Witness ==
    /\ InPicker
    /\ searchTerm = <<"X">>
    /\ Len(g_foodTemplates) = 2
    /\ g_foodTemplates[1].name = LineUpperLower
    /\ g_foodTemplates[2].name = LineX
    /\ Len(matches) = 1
    /\ matches[1].name = LineUpperLower

(***************************************************************************)
(* Deleting a template                                                     *)
(***************************************************************************)
\* 'x' in the picker has a template to delete: the row focused holds one
HasTarget ==
    /\ localSelection >= 2
    /\ localSelection - 2 + templateScrollOffset < Len(matches)

\* the template of the row focused
Target == matches[localSelection - 2 + templateScrollOffset + 1]

\* the positions in the template list of the templates of another name
OtherNames(templates, name) ==
    {i \in 1..Len(templates) : templates[i].name # name}

\* C29: 'x' in the picker on the row of a template takes out of the
\* template list every template that has the name of that template, with
\* the same numbers or with others, and leaves the templates of every other
\* name in the list in their order; 'x' changes no record, no goal and not
\* the data file
C29_DeleteByName ==
    [][lastOp' = "picker_x" =>
          /\ records' = records
          /\ dailyGoals' = dailyGoals
          /\ file' = file
          /\ IF HasTarget
             THEN \E kept \in {OtherNames(g_foodTemplates, Target.name)} :
                      /\ Len(g_foodTemplates') = Cardinality(kept)
                      /\ \A i \in kept :
                             g_foodTemplates'[Cardinality({j \in kept : j <= i})]
                                 = g_foodTemplates[i]
                      /\ \A i \in 1..Len(g_foodTemplates') :
                             g_foodTemplates'[i].name # Target.name
             ELSE g_foodTemplates' = g_foodTemplates]_vars

\* 'x' on one of two templates of different names: one template is left
C29_Witness ==
    /\ InPicker
    /\ lastOp = "picker_x"
    /\ Len(g_foodTemplates) = 1
    /\ g_foodTemplates[1].name = LineX
    /\ capturesLeft = 0
    /\ lim = SearchProfile

(***************************************************************************)
(* FOOD lines with no date                                                 *)
(***************************************************************************)
\* the lines of a file less the FOOD lines that no DATE line precedes
RECURSIVE WithoutOrphans(_, _)
WithoutOrphans(lines, dated) ==
    IF lines = <<>> THEN <<>>
    ELSE IF StartsWith(Head(lines), kFood) /\ ~dated
    THEN WithoutOrphans(Tail(lines), dated)
    ELSE <<Head(lines)>>
             \o WithoutOrphans(Tail(lines),
                               dated \/ StartsWith(Head(lines), kDate))

\* C30: a FOOD line of the data file that stands before every DATE line
\* puts no food into any record and makes no record, and the lines after it
\* are loaded as they are without it: the goals and the records after the
\* load are those of the file with such lines taken out; the file that
\* begins with two such lines gives the goals 1800, 200, 100, 60 and one
\* record, of 31/12/2024, with its one food
C30_OrphanFoodDropped ==
    (lastOp = "load" /\ file.exists) =>
        /\ \E st \in {FreshLoad(WithoutOrphans(file.lines, FALSE))} :
               IF st.thrown THEN pc = "terminated"
               ELSE /\ pc = "run"
                    /\ dailyGoals = st.goals
                    /\ records = GetRecord(st.records, currentDate)
        /\ file = OrphanFoodFile =>
               /\ pc = "run"
               /\ dailyGoals = [calories |-> 1800, carbs |-> 200,
                                protein |-> 100, fat |-> 60]
               /\ Len(records) = 1
               /\ records[1].date = FormatDate(31, 12, 2024)
               /\ Len(records[1].foods) = 1
               /\ records[1].foods[1].calories = 57

\* the file that begins with two FOOD lines was loaded and the main menu
\* shows its one food
C30_Witness ==
    /\ InMainMenu
    /\ lastOp = "load"
    /\ file = OrphanFoodFile
    /\ foodCount = 1

(***************************************************************************)
(* The scroll offset while a button is focused                             *)
(***************************************************************************)
\* C31: in the main menu and in the template picker, when 'j' or 'k' leaves
\* the focus on one of the buttons above the list (the four menu items, the
\* search and create buttons), the scroll offset of the list is 0
\* afterwards
C31_ScrollResetInPrefix ==
    [][/\ (lastOp' \in {"main_j", "main_k"} /\ selectedIndex' < menuCount) =>
              foodScrollOffset' = 0
       /\ (lastOp' \in {"picker_j", "picker_k"} /\ localSelection' < 2) =>
              templateScrollOffset' = 0]_vars

(***************************************************************************)
(* The length of food names                                                *)
(***************************************************************************)
\* C32: every food of every record of the store has a name of at most 21
\* characters, whatever was added from the custom-food form, changed in the
\* edit form, or added from a template made in the create-template form
C32_NameLength ==
    \A i \in 1..Len(records) :
        \A j \in 1..Len(records[i].foods) :
            Len(records[i].foods[j].name) <= maxNameLen

\* C33: in every state of the calendar, from its entry and after every cursor
\* move and month paging, the cursor is on a day of the displayed month,
\* 1 <= selectedCalendarDay <= length of that month, and the date a confirm
\* makes active is a day of the calendar
C33_CalendarCursor ==
    [][/\ InCalendar' =>
              selectedCalendarDay' \in
                  1..GregorianLength(ParseDate(currentDate').month,
                                     ParseDate(currentDate').year)
       /\ (InCalendar /\ lastOp' = "cal_confirm") =>
              /\ ParseDate(currentDate').ok
              /\ IsCalendarDay(ParseDate(currentDate'))]_vars

\* the cursor is on the last day of a displayed month that is shorter than
\* the day number held in currentDate
C33_Witness ==
    /\ InCalendar
    /\ cal.day > GregorianLength(cal.month, cal.year)
    /\ selectedCalendarDay = GregorianLength(cal.month, cal.year)

\* C34: in the template picker, Enter or 'x' with the focus on a template
\* entry applies to the template at position localSelection - 2 of the
\* filtered list, whatever the scroll offset: Enter adds a food made from
\* that template to the record of the active date, 'x' removes the templates
\* of that template's name
C34_PickerActsOnFocused ==
    [][(/\ InPicker /\ ~searchEditing
        /\ localSelection >= 2 /\ localSelection - 2 < Len(matches)
        /\ lastOp' \in {"add_template", "picker_enter_none", "picker_x"}) =>
           LET t == matches[localSelection - 2 + 1]
               pos == RecordIndex(records', currentDate)
           IN  /\ lastOp' # "picker_enter_none"
               /\ lastOp' = "add_template" =>
                      /\ pos # 0
                      /\ records'[pos].foods # <<>>
                      /\ records'[pos].foods[Len(records'[pos].foods)].name
                             = t.name
               /\ lastOp' = "picker_x" =>
                      g_foodTemplates' =
                          SelectSeq(g_foodTemplates,
                                    LAMBDA tpl : tpl.name # t.name)]_vars

\* C35: whenever a field of a food form or of a goals form is selected and
\* the user enters a non-empty line holding a valid value (an integer for a
\* number field, a text of at most 21 characters for the name), the field
\* holds that value afterwards, whatever happened before in the session,
\* a template instantiation that read its grams from the same stream included
C35_FieldEdit ==
    [][\A typed \in lim.lines :
          /\ (/\ EnteredInt(typed) /\ localSelection > 0
              /\ FoodForm_Enter_field_line(typed)) =>
                 fieldValues'[localSelection] = ScanInt(typed).value
          /\ (EnteredInt(typed) /\ GoalsForm_Enter_field_line(typed)) =>
                 fieldValues'[localSelection + 1] = ScanInt(typed).value
          /\ (/\ typed # <<>> /\ Len(typed) <= maxNameLen
              /\ localSelection = 0
              /\ FoodForm_Enter_field_line(typed)) =>
                 foodName' = typed]_vars

\* C36: in every frame of the main menu, whatever advances, retreats,
\* deletions and date changes came before, a focus that is on an entry of the
\* food list is on one of the visible rows:
\* foodScrollOffset <= selectedIndex - 4 < foodScrollOffset + 10
C36_FocusInsideWindow ==
    (InMainMenu /\ selectedIndex >= menuCount
                /\ selectedIndex - menuCount < foodCount) =>
        /\ foodScrollOffset <= selectedIndex - menuCount
        /\ selectedIndex - menuCount < foodScrollOffset + VisibleSlots

\* a food above the window's last row was deleted from a list scrolled to
\* its end, and the focus is on the first visible row of the shorter list
C36_Witness ==
    /\ InMainMenu
    /\ lastOp = "delete"
    /\ foodCount > VisibleSlots
    /\ foodScrollOffset > 0
    /\ selectedIndex - menuCount = foodScrollOffset

\* the values of lastOp after a focus move, a day shift, a calendar move, a
\* month paging, a calendar confirm or cancel, and the cancel of a form
NavigationOps ==
    {"main_j", "main_k", "form_j", "form_k", "picker_j", "picker_k",
     "main_h", "main_l", "cal_h", "cal_l", "cal_j", "cal_k", "cal_b", "cal_w",
     "cal_confirm", "cal_cancel", "form_cancel", "create_cancel",
     "picker_cancel"}

\* C37: a focus move, day shift, calendar move, month paging, calendar
\* confirm or cancel, or form cancel leaves the goals and every record the
\* store holds as they are and removes none; all it may do to the store is
\* add, behind them, the foodless record of a date that had none and is now
\* shown in the main menu
C37_NavigationReadOnly ==
    [][lastOp' \in NavigationOps =>
          /\ dailyGoals' = dailyGoals
          /\ Len(records') >= Len(records)
          /\ \A i \in 1..Len(records) : records'[i] = records[i]
          /\ \A i \in (Len(records) + 1)..Len(records') :
                /\ pc' = "run" /\ currentState' = "STATE_MAIN_MENU"
                /\ records'[i] = [date |-> currentDate', foods |-> <<>>]
                /\ currentDate' \notin DatesOf(records)]_vars

\* a day shift added the foodless record of the day reached behind a record
\* that holds a food
C37_Witness ==
    /\ InMainMenu
    /\ lastOp \in {"main_h", "main_l"}
    /\ Len(records) = 2
    /\ records[1].foods # <<>>
    /\ records[2] = [date |-> currentDate, foods |-> <<>>]

\* the edit form's [Update] acted on food j of the record of the active
\* date: that entry now holds the food given, and the number and the order of
\* the foods of the record, its other foods, the other records and the goals
\* are as before
OnlyEntryChanged(food) ==
    LET pos == RecordIndex(records, currentDate)
    IN  /\ foodIndex = selectedIndex - menuCount
        /\ dailyGoals' = dailyGoals
        /\ Len(records') = Len(records)
        /\ \A i \in 1..Len(records) : i # pos => records'[i] = records[i]
        /\ records'[pos].date = records[pos].date
        /\ Len(records'[pos].foods) = Len(records[pos].foods)
        /\ \A k \in 1..Len(records[pos].foods) :
              records'[pos].foods[k] =
                  IF k = foodIndex + 1 THEN food ELSE records[pos].foods[k]

C39_ActiveDateValid ==
    [][/\ InMainMenu' =>
              /\ ParseDate(currentDate').ok
              /\ IsCalendarDay(ParseDate(currentDate'))
              /\ currentDate' = FormatTm(ParseDate(currentDate'))
       /\ lastOp' \in NavigationOps =>
              \A i \in (Len(records) + 1)..Len(records') :
                  /\ ParseDate(records'[i].date).ok
                  /\ IsCalendarDay(ParseDate(records'[i].date))]_vars

\* the 29th of February was confirmed in the calendar, and got its record,
\* in a run that had shown the 31st of January of that year, a day number
\* February lacks
C39_Witness ==
    /\ InMainMenu
    /\ lastOp = "cal_confirm"
    /\ cal.day = 29 /\ cal.month = 2
    /\ RecordIndex(records, currentDate) # 0
    /\ RecordIndex(records, FormatDate(31, 1, cal.year)) # 0

====
